---- MODULE Spec2Model ----
(***************************************************************************)
(* A model of the MiniLisp interpreter (src/main.cpp) and of its WASM      *)
(* entry points (src/wasm.cpp).                                            *)
(*                                                                         *)
(* Text is a sequence of one-character strings.  A std::string_view is     *)
(* modelled by the characters it views: every comparison the program makes *)
(* on a string_view (operator==, str_eq, SymbolTable::str_equals) compares *)
(* contents, and the storage a view points into is never changed while the *)
(* view is alive (the SymbolTable is append-only and never cleared by the  *)
(* entry points; the source line outlives the one-shot evaluation).        *)
(***************************************************************************)
EXTENDS Integers, Sequences, FiniteSets, TLC

VARIABLES
    build,             \* which binary runs: "standard", "minimal" or "wasm"
    alive,             \* FALSE once the process has ended (quit, or terminate())
    symbols,           \* SymbolTable::symbols of get_symbol_table()
    functions,         \* FunctionStore::functions of the session's store
    bindings,          \* Env::bindings of the session's Env
    g_last_input_len,  \* wasm.cpp's g_last_input_len
    suite,             \* the input texts this run draws its lines from
    last,              \* observation of the last entry-point call
    defined            \* history: per name, the Lambda of the last define since the
                       \* last reset, and whether the name was defined before it

vars == <<build, alive, symbols, functions, bindings, g_last_input_len, suite, last,
          defined>>

-----------------------------------------------------------------------------
(* Bounds *)

\* Deepest nesting of user-function calls the model follows; the host stack
\* of the real program is finite too, only much deeper.
MaxDepth == 6

\* Most operands a builtin is applied to when the builtins are run on their own.
MaxOperands == 3

\* Deepest nesting of list forms in the expressions given to both evaluators.
MaxNest == 2

-----------------------------------------------------------------------------
(* Characters *)

IsDigit(c) == c \in {"0", "1", "2", "3", "4", "5", "6", "7", "8", "9"}

DigitVal(c) ==
    CASE c = "0" -> 0 [] c = "1" -> 1 [] c = "2" -> 2 [] c = "3" -> 3
      [] c = "4" -> 4 [] c = "5" -> 5 [] c = "6" -> 6 [] c = "7" -> 7
      [] c = "8" -> 8 [] c = "9" -> 9

DigitChar(d) ==
    CASE d = 0 -> "0" [] d = 1 -> "1" [] d = 2 -> "2" [] d = 3 -> "3"
      [] d = 4 -> "4" [] d = 5 -> "5" [] d = 6 -> "6" [] d = 7 -> "7"
      [] d = 8 -> "8" [] d = 9 -> "9"

\* The characters skip_ws skips.
IsSpace(c) == c \in {" ", "\n", "\t"}

\* The characters that end the run parse_atom takes.
AtomStop(c) == c \in {" ", ")", "'", "\n", "\t"}

-----------------------------------------------------------------------------
(* S-expressions *)

AtomInt(n) == [k |-> "int", n |-> n]
AtomSym(s) == [k |-> "sym", s |-> s]
MkList(l)  == [k |-> "list", l |-> l]

IsInt(e)  == e.k = "int"
IsSym(e)  == e.k = "sym"
IsAtom(e) == e.k \in {"int", "sym"}
IsList(e) == e.k = "list"

-----------------------------------------------------------------------------
(* Symbol table *)

RECURSIVE FindSym(_, _, _)
\* SymbolTable::intern's scan (with str_equals): the node of the first entry
\* of tab, from node i on, whose text is s; 0 if there is none.
FindSym(tab, s, i) ==
    IF i > Len(tab) THEN 0
    ELSE IF tab[i] = s THEN i
    ELSE FindSym(tab, s, i + 1)

\* A handle is the string_view intern returns: the list node it points into
\* and the number of characters it views.
Handle(node, len) == [node |-> node, len |-> len]

\* intern without the scan for an entry of the same text: every call appends.
intern_always_appends(tab, s) ==
    [tab |-> Append(tab, s), h |-> Handle(Len(tab) + 1, Len(s))]

intern(tab, s) ==
    LET i == FindSym(tab, s, 1)
    IN  IF i # 0
        THEN [tab |-> tab, h |-> Handle(i, Len(tab[i]))]
        ELSE [tab |-> Append(tab, s), h |-> Handle(Len(tab) + 1, Len(s))]

\* The characters a handle views in the table.
View(tab, h) == SubSeq(tab[h.node], 1, h.len)

-----------------------------------------------------------------------------
(* Parser *)

PFail(msg) == [ok |-> FALSE, err |-> msg]

RECURSIVE skip_ws(_)
skip_ws(s) ==
    IF s # <<>> /\ IsSpace(s[1]) THEN skip_ws(Tail(s)) ELSE s

RECURSIVE s_to_l_loop(_, _, _)
s_to_l_loop(s, i, res) ==
    IF i > Len(s) THEN [ok |-> TRUE, n |-> res]
    ELSE IF IsDigit(s[i]) THEN s_to_l_loop(s, i + 1, res * 10 + DigitVal(s[i]))
    ELSE PFail("Invalid number")

s_to_l(s) ==
    LET neg  == s # <<>> /\ s[1] = "-"
        r    == s_to_l_loop(IF neg THEN Tail(s) ELSE s, 1, 0)
    IN  IF r.ok THEN [ok |-> TRUE, n |-> IF neg THEN 0 - r.n ELSE r.n] ELSE r

RECURSIVE AtomRun(_, _)
\* The loop of parse_atom: the length of the run the atom takes.
AtomRun(s, len) ==
    IF len < Len(s) /\ ~AtomStop(s[len + 1]) THEN AtomRun(s, len + 1) ELSE len

\* parse_atom's numeral test on the token val (Len(val) > 0).
IsNumeral(val) ==
    LET start_idx == IF val[1] = "-" /\ Len(val) # 1 THEN 1 ELSE 0
        is_num    == IF val[1] = "-" THEN Len(val) # 1 ELSE IsDigit(val[1])
    IN  /\ is_num
        /\ Len(val) # start_idx
        /\ \A i \in (start_idx + 1)..Len(val) : IsDigit(val[i])

parse_atom(s) ==
    LET len == AtomRun(s, 0)
        val == SubSeq(s, 1, len)
        rst == SubSeq(s, len + 1, Len(s))
    IN  IF len = 0 THEN PFail("Empty atom")
        ELSE IF IsNumeral(val)
        THEN LET n == s_to_l(val)
             IN  IF n.ok THEN [ok |-> TRUE, e |-> AtomInt(n.n), rest |-> rst] ELSE n
        ELSE [ok |-> TRUE, e |-> AtomSym(val), rest |-> rst]

SymQuote == <<"q", "u", "o", "t", "e">>

RECURSIVE parse(_)
RECURSIVE parse_list_loop(_, _)

\* The while (true) loop of parse_list, list being the elements pushed so far.
parse_list_loop(s0, list) ==
    LET s == skip_ws(s0)
    IN  IF s = <<>> THEN PFail("Unterminated list")
        ELSE IF s[1] = ")" THEN [ok |-> TRUE, l |-> list, rest |-> Tail(s)]
        ELSE LET r == parse(s)
             IN  IF r.ok THEN parse_list_loop(r.rest, Append(list, r.e)) ELSE r

parse_list(s) == parse_list_loop(Tail(s), <<>>)

parse(s0) ==
    LET s == skip_ws(s0)
    IN  IF s = <<>> THEN PFail("Unexpected end of input")
        ELSE IF s[1] = "'"
        THEN LET r == parse(Tail(s))
             IN  IF r.ok
                 THEN [ok |-> TRUE, e |-> MkList(<<AtomSym(SymQuote), r.e>>), rest |-> r.rest]
                 ELSE r
        ELSE IF s[1] = "("
        THEN LET r == parse_list(s)
             IN  IF r.ok THEN [ok |-> TRUE, e |-> MkList(r.l), rest |-> r.rest] ELSE r
        ELSE parse_atom(s)

(* The interning parser: the same grammar, the SymbolTable threaded through. *)
(* A failure keeps the table as the symbols interned before it left it.      *)

PFailT(msg, tab) == [ok |-> FALSE, err |-> msg, tab |-> tab]

parse_atom_interned(s, tab) ==
    LET len == AtomRun(s, 0)
        val == SubSeq(s, 1, len)
        rst == SubSeq(s, len + 1, Len(s))
    IN  IF len = 0 THEN PFailT("Empty atom", tab)
        ELSE IF IsNumeral(val)
        THEN LET n == s_to_l(val)
             IN  IF n.ok
                 THEN [ok |-> TRUE, e |-> AtomInt(n.n), rest |-> rst, tab |-> tab]
                 ELSE PFailT(n.err, tab)
        ELSE LET r == intern(tab, val)
             IN  [ok |-> TRUE, e |-> AtomSym(View(r.tab, r.h)), rest |-> rst, tab |-> r.tab]

RECURSIVE parse_interned(_, _)
RECURSIVE parse_list_interned_loop(_, _, _)

parse_list_interned_loop(s0, list, tab) ==
    LET s == skip_ws(s0)
    IN  IF s = <<>> THEN PFailT("Unterminated list", tab)
        ELSE IF s[1] = ")"
        THEN [ok |-> TRUE, l |-> list, rest |-> Tail(s), tab |-> tab]
        ELSE LET r == parse_interned(s, tab)
             IN  IF r.ok
                 THEN parse_list_interned_loop(r.rest, Append(list, r.e), r.tab)
                 ELSE r

parse_list_interned(s, tab) == parse_list_interned_loop(Tail(s), <<>>, tab)

parse_interned(s0, tab) ==
    LET s == skip_ws(s0)
    IN  IF s = <<>> THEN PFailT("Unexpected end of input", tab)
        ELSE IF s[1] = "'"
        THEN LET q == intern(tab, SymQuote)
                 r == parse_interned(Tail(s), q.tab)
             IN  IF r.ok
                 THEN [ok |-> TRUE, e |-> MkList(<<AtomSym(View(q.tab, q.h)), r.e>>),
                       rest |-> r.rest, tab |-> r.tab]
                 ELSE r
        ELSE IF s[1] = "("
        THEN LET r == parse_list_interned(s, tab)
             IN  IF r.ok
                 THEN [ok |-> TRUE, e |-> MkList(r.l), rest |-> r.rest, tab |-> r.tab]
                 ELSE r
        ELSE parse_atom_interned(s, tab)

-----------------------------------------------------------------------------
(* Lambda, FunctionStore, Env *)

\* Lambda's constructor: a List body is stored as its elements, an Atom body
\* as a one-element vector.
Lambda(p, b) == [params |-> p, body |-> IF IsList(b) THEN b.l ELSE <<b>>]

get_body(fn) ==
    IF Len(fn.body) = 1 /\ IsAtom(fn.body[1]) THEN fn.body[1] ELSE MkList(fn.body)

get_param(fn, i) == fn.params[i]

RECURSIVE FunctionStore_lookup_from(_, _, _)
\* The reverse scan of FunctionStore::lookup from entry i down; 0 for nullptr.
FunctionStore_lookup_from(fns, name, i) ==
    IF i = 0 THEN 0
    ELSE IF fns[i].name = name THEN i
    ELSE FunctionStore_lookup_from(fns, name, i - 1)

FunctionStore_lookup(fns, name) == FunctionStore_lookup_from(fns, name, Len(fns))

\* define without the removal of the entry the name had.
FunctionStore_define_keeps_old(fns, name, fn) ==
    Append(fns, [name |-> name, fn |-> fn])

FunctionStore_define(fns, name, fn) ==
    Append(SelectSeq(fns, LAMBDA p : p.name # name), [name |-> name, fn |-> fn])

RECURSIVE Env_lookup_from(_, _, _)
\* The reverse scan of Env::lookup from binding i down; 0 for nullptr.
Env_lookup_from(bs, name, i) ==
    IF i = 0 THEN 0
    ELSE IF bs[i].name = name THEN i
    ELSE Env_lookup_from(bs, name, i - 1)

Env_lookup(bs, name) == Env_lookup_from(bs, name, Len(bs))

Env_define(bs, name, value) == Append(bs, [name |-> name, value |-> value])

-----------------------------------------------------------------------------
(* Builtins *)

SymPlus  == <<"+">>
SymTimes == <<"*">>
SymMinus == <<"-">>
SymDiv   == <<"/">>
SymCar   == <<"c", "a", "r">>
SymCdr   == <<"c", "d", "r">>
SymLt    == <<"<">>
SymGt    == <<">">>
SymEq    == <<"=">>
SymLe    == <<"<", "=">>
SymGe    == <<">", "=">>
SymIf    == <<"i", "f">>
SymDefun == <<"d", "e", "f", "u", "n">>

\* str_eq(sv, literal): equal length and equal characters.
str_eq(sv, lit) ==
    Len(sv) = Len(lit) /\ \A i \in 1..Len(lit) : sv[i] = lit[i]

VFail(msg) == [ok |-> FALSE, err |-> msg]
VOk(v)     == [ok |-> TRUE, v |-> v]

get_long(e) ==
    IF IsInt(e) THEN [ok |-> TRUE, n |-> e.n] ELSE VFail("Expected a number")

AllLongs(operands) == \A i \in 1..Len(operands) : IsInt(operands[i])

RECURSIVE SumFrom_from_one(_, _)
\* A sum reduced from the initial value of the product.
SumFrom_from_one(operands, i) ==
    IF i > Len(operands) THEN 1 ELSE operands[i].n + SumFrom_from_one(operands, i + 1)

RECURSIVE SumFrom(_, _)
SumFrom(operands, i) ==
    IF i > Len(operands) THEN 0 ELSE operands[i].n + SumFrom(operands, i + 1)

RECURSIVE ProductFrom(_, _)
ProductFrom(operands, i) ==
    IF i > Len(operands) THEN 1 ELSE operands[i].n * ProductFrom(operands, i + 1)

Abs(n) == IF n < 0 THEN 0 - n ELSE n

\* A truncating quotient replaced by the floored one.
LongDiv_floored(a, b) ==
    IF b > 0 THEN a \div b ELSE (0 - a) \div (0 - b)

\* long / long: the quotient truncated toward zero (b # 0).
LongDiv(a, b) ==
    IF (a < 0) = (b < 0) THEN Abs(a) \div Abs(b) ELSE 0 - (Abs(a) \div Abs(b))

\* A tail that starts at begin() and so keeps the first element.
list_tail_from_begin(list) == list

\* List new_list(list.begin() + 1, list.end())
list_tail(list) == Tail(list)

apply_op(op, operands) ==
    IF str_eq(op, SymPlus)
    THEN IF AllLongs(operands) THEN VOk(AtomInt(SumFrom(operands, 1)))
         ELSE VFail("Expected a number")
    ELSE IF str_eq(op, SymTimes)
    THEN IF AllLongs(operands) THEN VOk(AtomInt(ProductFrom(operands, 1)))
         ELSE VFail("Expected a number")
    ELSE IF str_eq(op, SymMinus)
    THEN IF operands = <<>> THEN VFail("'-' requires at least one argument")
         ELSE IF AllLongs(operands)
         THEN VOk(AtomInt(operands[1].n - SumFrom(operands, 2)))
         ELSE VFail("Expected a number")
    ELSE IF str_eq(op, SymDiv)
    THEN IF Len(operands) # 2 THEN VFail("'/' requires exactly two arguments")
         ELSE IF ~AllLongs(operands) THEN VFail("Expected a number")
         ELSE IF operands[2].n = 0 THEN VFail("Division by zero")
         ELSE VOk(AtomInt(LongDiv(operands[1].n, operands[2].n)))
    ELSE IF str_eq(op, SymCar)
    THEN IF Len(operands) # 1 THEN VFail("'car' requires one argument")
         ELSE IF ~IsList(operands[1]) THEN VFail("'car' argument must be a list")
         ELSE IF operands[1].l = <<>> THEN VFail("'car' on empty list")
         ELSE VOk(Head(operands[1].l))
    ELSE IF str_eq(op, SymCdr)
    THEN IF Len(operands) # 1 THEN VFail("'cdr' requires one argument")
         ELSE IF ~IsList(operands[1]) THEN VFail("'cdr' argument must be a list")
         ELSE IF operands[1].l = <<>> THEN VFail("'cdr' on empty list")
         ELSE VOk(MkList(list_tail(operands[1].l)))
    ELSE VFail("Unknown operator")

-----------------------------------------------------------------------------
(* Evaluators *)

(* An evaluation returns [ok, v, fns, tr] or [ok, err, fns, tr]: the value   *)
(* or the message of the p_assert that failed, the FunctionStore as the      *)
(* evaluation left it, and the trace of what it did, in order:               *)
(*   "eval"   eval/eval_with_env entered on expression e with bindings env   *)
(*   "apply"  apply_op/apply_with_env entered on op with operands args, the  *)
(*            caller's bindings being env                                    *)
(*   "call"   the body of the user function found for op, a Lambda with      *)
(*            parameters params, is about to run with bindings env           *)
(*   "define" FunctionStore::define ran for name with Lambda fn              *)

EvEval(e, env)           == [ev |-> "eval", e |-> e, env |-> env]
EvApply(op, args, env)   == [ev |-> "apply", op |-> op, args |-> args, env |-> env]
EvCall(op, params, env)  == [ev |-> "call", fn |-> op, params |-> params, env |-> env]
EvDefine(name, fn)       == [ev |-> "define", name |-> name, fn |-> fn]

EOk(v, fns, tr)     == [ok |-> TRUE, v |-> v, fns |-> fns, tr |-> tr]
EFail(msg, fns, tr) == [ok |-> FALSE, err |-> msg, fns |-> fns, tr |-> tr]

\* What the model reports when user calls nest deeper than MaxDepth: the
\* program has no depth check and runs out of host stack.
StackExhausted == "stack exhausted"

RECURSIVE eval_operands_pure(_, _, _, _)
RECURSIVE eval(_, _)

\* The operand loop of eval: list[i..] evaluated in order into acc.
eval_operands_pure(list, i, acc, tr) ==
    IF i > Len(list) THEN [ok |-> TRUE, vals |-> acc, tr |-> tr]
    ELSE LET r == eval(list[i], tr)
         IN  IF r.ok THEN eval_operands_pure(list, i + 1, Append(acc, r.v), r.tr)
             ELSE r

eval(expr, tr0) ==
    LET tr == Append(tr0, EvEval(expr, <<>>))
    IN  IF IsInt(expr) THEN EOk(expr, <<>>, tr)
        ELSE IF IsSym(expr) THEN EFail("Unbound variable", <<>>, tr)
        ELSE LET list == expr.l
             IN  IF list = <<>> THEN EFail("Cannot eval empty list", <<>>, tr)
                 ELSE IF ~IsAtom(list[1]) THEN EFail("Operator must be an atom", <<>>, tr)
                 ELSE IF ~IsSym(list[1]) THEN EFail("Operator must be a symbol", <<>>, tr)
                 ELSE IF list[1].s = SymQuote
                 THEN IF Len(list) # 2
                      THEN EFail("'quote' requires exactly one argument", <<>>, tr)
                      ELSE EOk(list[2], <<>>, tr)
                 ELSE LET ops == eval_operands_pure(list, 2, <<>>, tr)
                      IN  IF ~ops.ok THEN ops
                          ELSE LET r == apply_op(list[1].s, ops.vals)
                                   tr2 == Append(ops.tr, EvApply(list[1].s, ops.vals, <<>>))
                               IN  IF r.ok THEN EOk(r.v, <<>>, tr2)
                                   ELSE EFail(r.err, <<>>, tr2)

CmpOps == {SymLt, SymGt, SymEq, SymLe, SymGe}

\* The message of the arity p_assert of each comparison.
CmpArityMsg(op) ==
    CASE op = SymLt -> "'<' requires two arguments"
      [] op = SymGt -> "'>' requires two arguments"
      [] op = SymEq -> "'=' requires two arguments"
      [] op = SymLe -> "'<=' requires two arguments"
      [] op = SymGe -> "'>=' requires two arguments"

Compare(op, a, b) ==
    CASE op = SymLt -> a < b
      [] op = SymGt -> a > b
      [] op = SymEq -> a = b
      [] op = SymLe -> a <= b
      [] op = SymGe -> a >= b

IsCmp(op) == \E c \in CmpOps : str_eq(op, c)

\* A call environment of the parameters alone, the caller's bindings left out.
BindParams_without_caller(call_env, fn, operands, i) ==
    [j \in 1..Len(fn.params) |-> [name |-> get_param(fn, j), value |-> operands[j]]]

RECURSIVE BindParams(_, _, _, _)
\* The loop of apply_with_env that defines parameter i.. in call_env.
BindParams(call_env, fn, operands, i) ==
    IF i > Len(fn.params) THEN call_env
    ELSE BindParams(Env_define(call_env, get_param(fn, i), operands[i]), fn, operands, i + 1)

RECURSIVE DefunParams(_, _, _)
\* The loop of defun over the parameter list: the names, or the failure.
DefunParams(plist, i, params) ==
    IF i > Len(plist) THEN [ok |-> TRUE, params |-> params]
    ELSE IF ~IsAtom(plist[i]) THEN VFail("Parameter must be a symbol")
    ELSE IF ~IsSym(plist[i]) THEN VFail("Parameter must be a symbol")
    ELSE DefunParams(plist, i + 1, Append(params, plist[i].s))

(* The stateful evaluator takes its Env by reference: its results carry, in  *)
(* env, the bindings of that Env as the evaluation left them.                *)

EnvOk(v, env, fns, tr)     == [ok |-> TRUE, v |-> v, env |-> env, fns |-> fns, tr |-> tr]
EnvFail(msg, env, fns, tr) == [ok |-> FALSE, err |-> msg, env |-> env, fns |-> fns, tr |-> tr]

\* Env call_env = env: the callee ran on a copy, so what it defined in
\* call_env is not in the caller's env.
\* A call that binds its parameters in the caller's Env itself.
Env_after_call_shared(env, call_env) == call_env

Env_after_call(env, call_env) == env

RECURSIVE eval_with_env(_, _, _, _, _)
RECURSIVE apply_with_env(_, _, _, _, _, _)
RECURSIVE eval_operands(_, _, _, _, _, _, _)
RECURSIVE eval_if(_, _, _, _, _)

RECURSIVE eval_operands_right_to_left(_, _, _, _, _, _, _)
\* The operand loop run from the last operand to the first.
eval_operands_right_to_left(list, i, acc, env, fns, depth, tr) ==
    IF i > Len(list)
    THEN [ok |-> TRUE, vals |-> acc, env |-> env, fns |-> fns, tr |-> tr]
    ELSE LET r == eval_with_env(list[Len(list) + 2 - i], env, fns, depth, tr)
         IN  IF r.ok
             THEN eval_operands_right_to_left(list, i + 1, <<r.v>> \o acc, r.env, r.fns,
                                              depth, r.tr)
             ELSE r

\* The operand loop of eval_with_env: list[i..] evaluated in order into acc.
eval_operands(list, i, acc, env, fns, depth, tr) ==
    IF i > Len(list)
    THEN [ok |-> TRUE, vals |-> acc, env |-> env, fns |-> fns, tr |-> tr]
    ELSE LET r == eval_with_env(list[i], env, fns, depth, tr)
         IN  IF r.ok
             THEN eval_operands(list, i + 1, Append(acc, r.v), r.env, r.fns, depth, r.tr)
             ELSE r

\* A dispatch that knows comparisons and user-defined functions only, and
\* never falls back to the builtins of apply_op.
apply_with_env_without_fallback(op, operands, env, fns, depth, tr0) ==
    LET tr == Append(tr0, EvApply(op, operands, env))
    IN  IF IsCmp(op)
        THEN IF Len(operands) # 2 THEN EnvFail(CmpArityMsg(op), env, fns, tr)
             ELSE IF ~AllLongs(operands) THEN EnvFail("Expected a number", env, fns, tr)
             ELSE EnvOk(AtomInt(IF Compare(op, operands[1].n, operands[2].n) THEN 1 ELSE 0),
                        env, fns, tr)
        ELSE LET fi == FunctionStore_lookup(fns, op)
             IN  IF fi # 0
                 THEN LET fn == fns[fi].fn
                      IN  IF Len(operands) # Len(fn.params)
                          THEN EnvFail("Wrong number of arguments", env, fns, tr)
                          ELSE IF depth >= MaxDepth
                          THEN EnvFail(StackExhausted, env, fns, tr)
                          ELSE LET call_env == BindParams(env, fn, operands, 1)
                                   r == eval_with_env(get_body(fn), call_env, fns, depth + 1,
                                                      Append(tr, EvCall(op, fn.params, call_env)))
                               IN  [r EXCEPT !.env = Env_after_call(env, r.env)]
                 ELSE EnvFail("Unknown operator", env, fns, tr)

\* apply_with_env with the user functions looked up before the comparisons.
apply_with_env_user_first(op, operands, env, fns, depth, tr0) ==
    LET tr == Append(tr0, EvApply(op, operands, env))
        fi == FunctionStore_lookup(fns, op)
    IN  IF fi # 0
        THEN LET fn == fns[fi].fn
             IN  IF Len(operands) # Len(fn.params)
                 THEN EnvFail("Wrong number of arguments", env, fns, tr)
                 ELSE IF depth >= MaxDepth
                 THEN EnvFail(StackExhausted, env, fns, tr)
                 ELSE LET call_env == BindParams(env, fn, operands, 1)
                          r == eval_with_env(get_body(fn), call_env, fns, depth + 1,
                                             Append(tr, EvCall(op, fn.params, call_env)))
                      IN  [r EXCEPT !.env = Env_after_call(env, r.env)]
        ELSE IF IsCmp(op)
        THEN IF Len(operands) # 2 THEN EnvFail(CmpArityMsg(op), env, fns, tr)
             ELSE IF ~AllLongs(operands) THEN EnvFail("Expected a number", env, fns, tr)
             ELSE EnvOk(AtomInt(IF Compare(op, operands[1].n, operands[2].n) THEN 1 ELSE 0),
                        env, fns, tr)
        ELSE LET r == apply_op(op, operands)
             IN  IF r.ok THEN EnvOk(r.v, env, fns, tr) ELSE EnvFail(r.err, env, fns, tr)

apply_with_env(op, operands, env, fns, depth, tr0) ==
    LET tr == Append(tr0, EvApply(op, operands, env))
    IN  IF IsCmp(op)
        THEN IF Len(operands) # 2 THEN EnvFail(CmpArityMsg(op), env, fns, tr)
             ELSE IF ~AllLongs(operands) THEN EnvFail("Expected a number", env, fns, tr)
             ELSE EnvOk(AtomInt(IF Compare(op, operands[1].n, operands[2].n) THEN 1 ELSE 0),
                        env, fns, tr)
        ELSE LET fi == FunctionStore_lookup(fns, op)
             IN  IF fi # 0
                 THEN LET fn == fns[fi].fn
                      IN  IF Len(operands) # Len(fn.params)
                          THEN EnvFail("Wrong number of arguments", env, fns, tr)
                          ELSE IF depth >= MaxDepth
                          THEN EnvFail(StackExhausted, env, fns, tr)
                          ELSE LET call_env == BindParams(env, fn, operands, 1)
                                   r == eval_with_env(get_body(fn), call_env, fns, depth + 1,
                                                      Append(tr, EvCall(op, fn.params, call_env)))
                               IN  [r EXCEPT !.env = Env_after_call(env, r.env)]
                 ELSE LET r == apply_op(op, operands)
                      IN  IF r.ok THEN EnvOk(r.v, env, fns, tr)
                          ELSE EnvFail(r.err, env, fns, tr)

\* An 'if' that evaluates both branches and then picks one result.
eval_if_both_branches(list, env, fns, depth, tr) ==
    IF Len(list) # 4
    THEN EnvFail("'if' requires exactly 3 arguments: (if cond then else)", env, fns, tr)
    ELSE LET cond == eval_with_env(list[2], env, fns, depth, tr)
         IN  IF ~cond.ok THEN cond
             ELSE IF ~get_long(cond.v).ok
             THEN EnvFail(get_long(cond.v).err, cond.env, cond.fns, cond.tr)
             ELSE LET t == eval_with_env(list[3], cond.env, cond.fns, depth, cond.tr)
                  IN  IF ~t.ok THEN t
                      ELSE LET e == eval_with_env(list[4], t.env, t.fns, depth, t.tr)
                           IN  IF ~e.ok THEN e
                               ELSE IF get_long(cond.v).n # 0
                               THEN EnvOk(t.v, e.env, e.fns, e.tr)
                               ELSE e

\* The 'if' special form of eval_with_env on the form list.
eval_if(list, env, fns, depth, tr) ==
    IF Len(list) # 4
    THEN EnvFail("'if' requires exactly 3 arguments: (if cond then else)", env, fns, tr)
    ELSE LET cond == eval_with_env(list[2], env, fns, depth, tr)
         IN  IF ~cond.ok THEN cond
             ELSE IF ~get_long(cond.v).ok
             THEN EnvFail(get_long(cond.v).err, cond.env, cond.fns, cond.tr)
             ELSE IF get_long(cond.v).n # 0
             THEN eval_with_env(list[3], cond.env, cond.fns, depth, cond.tr)
             ELSE eval_with_env(list[4], cond.env, cond.fns, depth, cond.tr)

\* The 'defun' special form of eval_with_env on the form list.
\* A defun that ignores operands after the body.
eval_defun_extra_operands(list, env, fns, tr) ==
    IF Len(list) < 4
    THEN EnvFail("'defun' requires: (defun name (params...) body)", env, fns, tr)
    ELSE IF ~IsAtom(list[2]) \/ ~IsSym(list[2])
    THEN EnvFail("Function name must be a symbol", env, fns, tr)
    ELSE IF ~IsList(list[3])
    THEN EnvFail("Parameters must be a list", env, fns, tr)
    ELSE LET ps == DefunParams(list[3].l, 1, <<>>)
         IN  IF ~ps.ok THEN EnvFail(ps.err, env, fns, tr)
             ELSE LET fn == Lambda(ps.params, list[4])
                  IN  EnvOk(AtomSym(list[2].s), env,
                            FunctionStore_define(fns, list[2].s, fn),
                            Append(tr, EvDefine(list[2].s, fn)))

eval_defun(list, env, fns, tr) ==
    IF Len(list) # 4
    THEN EnvFail("'defun' requires: (defun name (params...) body)", env, fns, tr)
    ELSE IF ~IsAtom(list[2]) \/ ~IsSym(list[2])
    THEN EnvFail("Function name must be a symbol", env, fns, tr)
    ELSE IF ~IsList(list[3])
    THEN EnvFail("Parameters must be a list", env, fns, tr)
    ELSE LET ps == DefunParams(list[3].l, 1, <<>>)
         IN  IF ~ps.ok THEN EnvFail(ps.err, env, fns, tr)
             ELSE LET fn == Lambda(ps.params, list[4])
                  IN  EnvOk(AtomSym(list[2].s), env,
                            FunctionStore_define(fns, list[2].s, fn),
                            Append(tr, EvDefine(list[2].s, fn)))

\* eval_with_env with a Symbol that has no binding falling back to the
\* Function Store: the name of a defined function evaluates to itself.
eval_with_env_function_fallback(expr, env, fns, depth, tr0) ==
    LET tr == Append(tr0, EvEval(expr, env))
    IN  IF IsInt(expr) THEN EnvOk(expr, env, fns, tr)
        ELSE IF IsSym(expr)
        THEN LET bi == Env_lookup(env, expr.s)
             IN  IF bi # 0 THEN EnvOk(env[bi].value, env, fns, tr)
                 ELSE IF FunctionStore_lookup(fns, expr.s) # 0 THEN EnvOk(expr, env, fns, tr)
                 ELSE EnvFail("Unbound variable", env, fns, tr)
        ELSE LET list == expr.l
             IN  IF list = <<>> THEN EnvFail("Cannot eval empty list", env, fns, tr)
                 ELSE IF ~IsAtom(list[1]) THEN EnvFail("Operator must be an atom", env, fns, tr)
                 ELSE IF ~IsSym(list[1]) THEN EnvFail("Operator must be a symbol", env, fns, tr)
                 ELSE IF str_eq(list[1].s, SymQuote)
                 THEN IF Len(list) # 2
                      THEN EnvFail("'quote' requires exactly one argument", env, fns, tr)
                      ELSE EnvOk(list[2], env, fns, tr)
                 ELSE IF str_eq(list[1].s, SymIf) THEN eval_if(list, env, fns, depth, tr)
                 ELSE IF str_eq(list[1].s, SymDefun) THEN eval_defun(list, env, fns, tr)
                 ELSE LET ops == eval_operands(list, 2, <<>>, env, fns, depth, tr)
                      IN  IF ~ops.ok THEN ops
                          ELSE apply_with_env(list[1].s, ops.vals, ops.env, ops.fns, depth,
                                              ops.tr)

eval_with_env(expr, env, fns, depth, tr0) ==
    LET tr == Append(tr0, EvEval(expr, env))
    IN  IF IsInt(expr) THEN EnvOk(expr, env, fns, tr)
        ELSE IF IsSym(expr)
        THEN LET bi == Env_lookup(env, expr.s)
             IN  IF bi # 0 THEN EnvOk(env[bi].value, env, fns, tr)
                 ELSE EnvFail("Unbound variable", env, fns, tr)
        ELSE LET list == expr.l
             IN  IF list = <<>> THEN EnvFail("Cannot eval empty list", env, fns, tr)
                 ELSE IF ~IsAtom(list[1]) THEN EnvFail("Operator must be an atom", env, fns, tr)
                 ELSE IF ~IsSym(list[1]) THEN EnvFail("Operator must be a symbol", env, fns, tr)
                 ELSE IF str_eq(list[1].s, SymQuote)
                 THEN IF Len(list) # 2
                      THEN EnvFail("'quote' requires exactly one argument", env, fns, tr)
                      ELSE EnvOk(list[2], env, fns, tr)
                 ELSE IF str_eq(list[1].s, SymIf) THEN eval_if(list, env, fns, depth, tr)
                 ELSE IF str_eq(list[1].s, SymDefun) THEN eval_defun(list, env, fns, tr)
                 ELSE LET ops == eval_operands(list, 2, <<>>, env, fns, depth, tr)
                      IN  IF ~ops.ok THEN ops
                          ELSE apply_with_env(list[1].s, ops.vals, ops.env, ops.fns, depth,
                                              ops.tr)

-----------------------------------------------------------------------------
(* Output *)

RECURSIVE DecDigits(_)
DecDigits(n) ==
    IF n < 10 THEN <<DigitChar(n)>>
    ELSE Append(DecDigits(n \div 10), DigitChar(n % 10))

\* std::ostream << long
ToDecimal(n) == IF n < 0 THEN <<"-">> \o DecDigits(0 - n) ELSE DecDigits(n)

RECURSIVE write_number_temp(_)
\* The while (num > 0) loop of write_number: temp, least digit first.
write_number_temp(num) ==
    IF num > 0 THEN <<DigitChar(num % 10)>> \o write_number_temp(num \div 10) ELSE <<>>

RECURSIVE Reverse(_)
Reverse(q) == IF q = <<>> THEN <<>> ELSE Append(Reverse(Tail(q)), Head(q))

write_number(n) ==
    LET is_neg == n < 0
        num    == IF is_neg THEN 0 - n ELSE n
    IN  IF num = 0 THEN <<"0">>
        ELSE (IF is_neg THEN <<"-">> ELSE <<>>) \o Reverse(write_number_temp(num))

Arrow == <<"=", ">", " ">>

Stdout(chars) == [stream |-> "stdout", chars |-> chars]
Stderr(prefix, what) == [stream |-> "stderr", prefix |-> prefix, what |-> what]

\* A REPL that prints every result as a number, 0 standing for the others.
ReplPrint_as_number(result) ==
    Stdout(Arrow \o ToDecimal(IF IsInt(result) THEN result.n ELSE 0))

\* What the REPL of main prints for a result.
ReplPrint(result) ==
    IF IsInt(result) THEN Stdout(Arrow \o ToDecimal(result.n))
    ELSE IF IsSym(result) THEN Stdout(Arrow \o result.s)
    ELSE Stdout(Arrow \o <<"(", "l", "i", "s", "t", ")">>)

-----------------------------------------------------------------------------
(* Input texts *)

\* The lines typed at the REPL or passed to eval_lisp, by name.
Lines ==
    [
      \* (+ (defun f (x) x) 1)
      add_defun_f |->
        <<"(", "+", " ", "(", "d", "e", "f", "u", "n", " ", "f", " ", "(", "x", ")", " ",
        "x", ")", " ", "1", ")">>,
      \* (f 3)
      f3 |->
        <<"(", "f", " ", "3", ")">>,
      \* (+ 1 2)
      add12 |->
        <<"(", "+", " ", "1", " ", "2", ")">>,
      \* (defun g (a) a)
      defun_g |->
        <<"(", "d", "e", "f", "u", "n", " ", "g", " ", "(", "a", ")", " ", "a", ")">>,
      \* (g (defun h () 1) 2)
      g_defun_h |->
        <<"(", "g", " ", "(", "d", "e", "f", "u", "n", " ", "h", " ", "(", ")", " ", "1",
        ")", " ", "2", ")">>,
      \* (h)
      h |->
        <<"(", "h", ")">>,
      \* (defun f (x) (+ x 1))
      defun_f_plus1 |->
        <<"(", "d", "e", "f", "u", "n", " ", "f", " ", "(", "x", ")", " ", "(", "+", " ",
        "x", " ", "1", ")", ")">>,
      \* (defun f (x) (+ x 2))
      defun_f_plus2 |->
        <<"(", "d", "e", "f", "u", "n", " ", "f", " ", "(", "x", ")", " ", "(", "+", " ",
        "x", " ", "2", ")", ")">>,
      \* (f 10)
      f10 |->
        <<"(", "f", " ", "1", "0", ")">>,
      \* (if 1 2 (/ 1 0))
      if_then |->
        <<"(", "i", "f", " ", "1", " ", "2", " ", "(", "/", " ", "1", " ", "0", ")", ")">>,
      \* (if 0 (/ 1 0) 3)
      if_else |->
        <<"(", "i", "f", " ", "0", " ", "(", "/", " ", "1", " ", "0", ")", " ", "3", ")">>,
      \* (if 'a 1 2)
      if_sym |->
        <<"(", "i", "f", " ", "'", "a", " ", "1", " ", "2", ")">>,
      \* (if -1 (defun t () 1) (defun e () 2))
      if_neg_defuns |->
        <<"(", "i", "f", " ", "-", "1", " ", "(", "d", "e", "f", "u", "n", " ", "t", " ",
        "(", ")", " ", "1", ")", " ", "(", "d", "e", "f", "u", "n", " ", "e", " ", "(",
        ")", " ", "2", ")", ")">>,
      \* (if (- 1 1) (defun t () 1) (defun e () 2))
      if_zero_defuns |->
        <<"(", "i", "f", " ", "(", "-", " ", "1", " ", "1", ")", " ", "(", "d", "e", "f",
        "u", "n", " ", "t", " ", "(", ")", " ", "1", ")", " ", "(", "d", "e", "f", "u",
        "n", " ", "e", " ", "(", ")", " ", "2", ")", ")">>,
      \* (if 1 2)
      if_short |->
        <<"(", "i", "f", " ", "1", " ", "2", ")">>,
      \* (defun rx (y) x)
      defun_rx |->
        <<"(", "d", "e", "f", "u", "n", " ", "r", "x", " ", "(", "y", ")", " ", "x", ")">>,
      \* (defun cx (x) (rx 0))
      defun_cx |->
        <<"(", "d", "e", "f", "u", "n", " ", "c", "x", " ", "(", "x", ")", " ", "(", "r",
        "x", " ", "0", ")", ")">>,
      \* (cx 5)
      cx5 |->
        <<"(", "c", "x", " ", "5", ")">>,
      \* (rx 0)
      rx0 |->
        <<"(", "r", "x", " ", "0", ")">>,
      \* (defun s (x) x)
      defun_s |->
        <<"(", "d", "e", "f", "u", "n", " ", "s", " ", "(", "x", ")", " ", "x", ")">>,
      \* (defun hs (x) (s 1))
      defun_hs |->
        <<"(", "d", "e", "f", "u", "n", " ", "h", "s", " ", "(", "x", ")", " ", "(", "s",
        " ", "1", ")", ")">>,
      \* (hs 5)
      hs5 |->
        <<"(", "h", "s", " ", "5", ")">>,
      \* (defun d (a a) a)
      defun_d |->
        <<"(", "d", "e", "f", "u", "n", " ", "d", " ", "(", "a", " ", "a", ")", " ", "a", ")">>,
      \* (d 1 2)
      d12 |->
        <<"(", "d", " ", "1", " ", "2", ")">>,
      \* (d 1)
      d1 |->
        <<"(", "d", " ", "1", ")">>,
      \* (defun id (x) x)
      defun_id |->
        <<"(", "d", "e", "f", "u", "n", " ", "i", "d", " ", "(", "x", ")", " ", "x", ")">>,
      \* (+ 0 0)
      add00 |->
        <<"(", "+", " ", "0", " ", "0", ")">>,
      \* '(1 2)
      quote_list |->
        <<"'", "(", "1", " ", "2", ")">>,
      \* (cdr '(7 8))
      cdr |->
        <<"(", "c", "d", "r", " ", "'", "(", "7", " ", "8", ")", ")">>,
      \* 'a
      quote_sym |->
        <<"'", "a">>,
      \* -12
      neg12 |->
        <<"-", "1", "2">>,
      \* (+ 1(+ 2 3))
      glued |->
        <<"(", "+", " ", "1", "(", "+", " ", "2", " ", "3", ")", ")">>,
      \* (+ 1 (+ 2 3))
      spaced |->
        <<"(", "+", " ", "1", " ", "(", "+", " ", "2", " ", "3", ")", ")">>,
      \* (car '(ab(c) d))
      glued_sym |->
        <<"(", "c", "a", "r", " ", "'", "(", "a", "b", "(", "c", ")", " ", "d", ")", ")">>,
      \* (+\t1\n2)
      tab_nl |->
        <<"(", "+", "\t", "1", "\n", "2", ")">>,
      \* (+ 1 (car 5) (zz))
      second_fails |->
        <<"(", "+", " ", "1", " ", "(", "c", "a", "r", " ", "5", ")", " ", "(", "z", "z",
        ")", ")">>,
      \* (- (defun m () 1) (/ 1 0))
      defun_then_div0 |->
        <<"(", "-", " ", "(", "d", "e", "f", "u", "n", " ", "m", " ", "(", ")", " ", "1",
        ")", " ", "(", "/", " ", "1", " ", "0", ")", ")">>,
      \* (+ (/ 1 0) (defun k () 1))
      div0_then_defun |->
        <<"(", "+", " ", "(", "/", " ", "1", " ", "0", ")", " ", "(", "d", "e", "f", "u",
        "n", " ", "k", " ", "(", ")", " ", "1", ")", ")">>,
      \* (foo 1 2)
      unknown_op |->
        <<"(", "f", "o", "o", " ", "1", " ", "2", ")">>,
      \* (+ 1 'a)
      add_sym |->
        <<"(", "+", " ", "1", " ", "'", "a", ")">>,
      \* (1 (/ 1 0))
      int_head |->
        <<"(", "1", " ", "(", "/", " ", "1", " ", "0", ")", ")">>,
      \* (defun w (n) (w n))
      defun_w |->
        <<"(", "d", "e", "f", "u", "n", " ", "w", " ", "(", "n", ")", " ", "(", "w", " ",
        "n", ")", ")">>,
      \* (w 1)
      w1 |->
        <<"(", "w", " ", "1", ")">>,
      \* (defun down (n) (if (= n 0) 0 (down (- n 1))))
      defun_down |->
        <<"(", "d", "e", "f", "u", "n", " ", "d", "o", "w", "n", " ", "(", "n", ")", " ",
        "(", "i", "f", " ", "(", "=", " ", "n", " ", "0", ")", " ", "0", " ", "(", "d",
        "o", "w", "n", " ", "(", "-", " ", "n", " ", "1", ")", ")", ")", ")">>,
      \* (down 3)
      down3 |->
        <<"(", "d", "o", "w", "n", " ", "3", ")">>,
      \* q
      q |->
        <<"q">>,
      \* (defun + (a b) 0)
      defun_plus |->
        <<"(", "d", "e", "f", "u", "n", " ", "+", " ", "(", "a", " ", "b", ")", " ", "0", ")">>,
      \* (defun car (l) 9)
      defun_car |->
        <<"(", "d", "e", "f", "u", "n", " ", "c", "a", "r", " ", "(", "l", ")", " ", "9", ")">>,
      \* (car '(7 8))
      car78 |->
        <<"(", "c", "a", "r", " ", "'", "(", "7", " ", "8", ")", ")">>,
      \* (defun ap (f) (f 10))
      defun_ap |->
        <<"(", "d", "e", "f", "u", "n", " ", "a", "p", " ", "(", "f", ")", " ", "(", "f",
        " ", "1", "0", ")", ")">>,
      \* (ap 5)
      ap5 |->
        <<"(", "a", "p", " ", "5", ")">>,
      \* f
      f_bare |->
        <<"f">>,
      \* (defun g2 () 5)
      defun_g2 |->
        <<"(", "d", "e", "f", "u", "n", " ", "g", "2", " ", "(", ")", " ", "5", ")">>,
      \* (defun lp () (g2))
      defun_lp |->
        <<"(", "d", "e", "f", "u", "n", " ", "l", "p", " ", "(", ")", " ", "(", "g", "2",
        ")", ")">>,
      \* (lp)
      lp |->
        <<"(", "l", "p", ")">>,
      \* (g2)
      g2 |->
        <<"(", "g", "2", ")">>,
      \* (defun f (x))
      defun_no_body |->
        <<"(", "d", "e", "f", "u", "n", " ", "f", " ", "(", "x", ")", ")">>,
      \* (defun f (x) x 1)
      defun_two_bodies |->
        <<"(", "d", "e", "f", "u", "n", " ", "f", " ", "(", "x", ")", " ", "x", " ", "1", ")">>,
      \* (defun)
      defun_bare |->
        <<"(", "d", "e", "f", "u", "n", ")">>,
      \* (defun 1 (x) x)
      defun_int_name |->
        <<"(", "d", "e", "f", "u", "n", " ", "1", " ", "(", "x", ")", " ", "x", ")">>,
      \* (defun (f) (x) x)
      defun_list_name |->
        <<"(", "d", "e", "f", "u", "n", " ", "(", "f", ")", " ", "(", "x", ")", " ", "x", ")">>,
      \* (defun () (x) x)
      defun_nil_name |->
        <<"(", "d", "e", "f", "u", "n", " ", "(", ")", " ", "(", "x", ")", " ", "x", ")">>,
      \* (defun f x x)
      defun_sym_params |->
        <<"(", "d", "e", "f", "u", "n", " ", "f", " ", "x", " ", "x", ")">>,
      \* (defun f (x 1) x)
      defun_int_param |->
        <<"(", "d", "e", "f", "u", "n", " ", "f", " ", "(", "x", " ", "1", ")", " ", "x", ")">>,
      \* (defun f (x (y)) x)
      defun_list_param |->
        <<"(", "d", "e", "f", "u", "n", " ", "f", " ", "(", "x", " ", "(", "y", ")", ")",
        " ", "x", ")">>,
      \* (defun f (x) (/ 1 0))
      defun_f_div0 |->
        <<"(", "d", "e", "f", "u", "n", " ", "f", " ", "(", "x", ")", " ", "(", "/", " ",
        "1", " ", "0", ")", ")">>,
      \* (defun f () (defun q () 1))
      defun_f_nested |->
        <<"(", "d", "e", "f", "u", "n", " ", "f", " ", "(", ")", " ", "(", "d", "e", "f",
        "u", "n", " ", "q", " ", "(", ")", " ", "1", ")", ")">>,
      \* (defun k (x) (+ (id 9) x))
      defun_k |->
        <<"(", "d", "e", "f", "u", "n", " ", "k", " ", "(", "x", ")", " ", "(", "+", " ",
        "(", "i", "d", " ", "9", ")", " ", "x", ")", ")">>,
      \* (k 1)
      k1 |->
        <<"(", "k", " ", "1", ")">>,
      \* x
      x_bare |->
        <<"x">>,
      \* (defun bad (x) (car x))
      defun_bad |->
        <<"(", "d", "e", "f", "u", "n", " ", "b", "a", "d", " ", "(", "x", ")", " ", "(",
        "c", "a", "r", " ", "x", ")", ")">>,
      \* (bad 5)
      bad5 |->
        <<"(", "b", "a", "d", " ", "5", ")">>
    ]

\* (defun <op> (a b) 7)
CmpDefun(op) ==
    <<"(", "d", "e", "f", "u", "n", " ">> \o op \o
    <<" ", "(", "a", " ", "b", ")", " ", "7", ")">>

\* (<op> <a> <b>)
CmpCall(op, a, b) == <<"(">> \o op \o <<" ">> \o a \o <<" ">> \o b \o <<")">>

CmpOpSeq == <<SymLt, SymGt, SymEq, SymLe, SymGe>>

(* The suites of input lines: a run draws its lines from one of them. *)

FixedSuites ==
    << {Lines.add_defun_f, Lines.f3, Lines.add12},                  \* a defun among the operands of a failing form
       {Lines.defun_g, Lines.g_defun_h, Lines.h},                   \* a defun among the arguments of a call of wrong arity
       {Lines.defun_f_plus1, Lines.defun_f_plus2, Lines.f10},       \* redefinition
       {Lines.if_then, Lines.if_else, Lines.if_sym},                \* if: the untaken branch would fail
       {Lines.if_neg_defuns, Lines.if_zero_defuns, Lines.if_short}, \* if: the branches define functions
       {Lines.defun_rx, Lines.defun_cx, Lines.cx5, Lines.rx0},          \* dynamic scoping
       {Lines.defun_s, Lines.defun_hs, Lines.hs5},                  \* a parameter shadows the caller's binding
       {Lines.defun_d, Lines.d12, Lines.d1},                        \* a duplicate parameter
       {Lines.defun_id, Lines.add00, Lines.quote_list},             \* results that are not integers
       {Lines.cdr, Lines.quote_sym, Lines.neg12},                   \* list and symbol results
       {Lines.glued, Lines.spaced, Lines.glued_sym, Lines.tab_nl},      \* an opening parenthesis directly after an atom
       {Lines.second_fails, Lines.defun_then_div0, Lines.div0_then_defun},  \* operand order: a failing operand
       {Lines.unknown_op, Lines.add_sym, Lines.int_head},           \* operand order: the operator fails
       {Lines.defun_w, Lines.w1},                               \* unbounded recursion
       {Lines.defun_down, Lines.down3},                       \* bounded recursion
       {Lines.defun_plus, Lines.add12, Lines.defun_car, Lines.car78},   \* a user function named like an arithmetic or list builtin
       {Lines.defun_f_plus1, Lines.defun_ap, Lines.ap5, Lines.f_bare},   \* a variable named like a function
       {Lines.defun_g2, Lines.defun_lp, Lines.lp, Lines.g2},   \* A function whose body is the zero-argument call (g2)
       {Lines.defun_f_plus1, Lines.defun_no_body, Lines.defun_two_bodies, Lines.defun_bare},   \* defun with too few or too many operands
       {Lines.defun_f_plus1, Lines.defun_int_name, Lines.defun_list_name, Lines.defun_nil_name},   \* defun whose name is not a Symbol
       {Lines.defun_f_plus1, Lines.defun_sym_params, Lines.defun_int_param, Lines.defun_list_param},   \* defun whose parameters are not a List of Symbols
       {Lines.defun_f_plus1, Lines.defun_f_div0, Lines.defun_f_nested},   \* defun whose body would fail or define
       {Lines.defun_id, Lines.defun_k, Lines.k1, Lines.x_bare},   \* a call among the operands of the caller's body
       {Lines.defun_bad, Lines.bad5, Lines.x_bare} >>   \* a call that fails inside the body

NumSuites == Len(FixedSuites) + Len(CmpOpSeq)

\* The lines of suite n; the suites after the fixed ones define a user function
\* named like a comparison and call it.
SuiteTexts(n) ==
    IF n <= Len(FixedSuites) THEN FixedSuites[n]
    ELSE LET op == CmpOpSeq[n - Len(FixedSuites)]
         IN  {CmpDefun(op), CmpCall(op, <<"1">>, <<"2">>), CmpCall(op, <<"2">>, <<"1">>),
              CmpCall(op, <<"2">>, <<"2">>)}

-----------------------------------------------------------------------------
(* Entry points *)

Builds == {"standard", "minimal", "wasm"}

NoCall == [op |-> "none"]

Init ==
    /\ build \in Builds
    /\ alive = TRUE
    /\ symbols = <<>>
    /\ functions = <<>>
    /\ bindings = <<>>
    /\ g_last_input_len = 0
    /\ suite \in 1..NumSuites
    /\ last = NoCall
    /\ defined = {}

RECURSIVE RecordDefines(_, _, _)
\* The history after the "define" events of trace tr, from event i on.
RecordDefines(d, tr, i) ==
    IF i > Len(tr) THEN d
    ELSE IF tr[i].ev = "define"
    THEN LET old == {x \in d : x.name = tr[i].name}
         IN  RecordDefines((d \ old) \cup {[name |-> tr[i].name, fn |-> tr[i].fn,
                                             again |-> old # {}]}, tr, i + 1)
    ELSE RecordDefines(d, tr, i + 1)

\* parse_interned followed by eval_with_env on the session Env, as both the
\* REPL of main and eval_lisp run them: [parsed, res, tab].
Evaluate(text, tab, env, fns) ==
    LET p == parse_interned(text, tab)
    IN  [parsed |-> p,
         tab    |-> p.tab,
         res    |-> IF p.ok THEN eval_with_env(p.e, env, fns, 0, <<>>)
                    ELSE EnvFail(p.err, env, fns, <<>>)]

\* One iteration of the REPL loop of main (standard build) on a line that is
\* neither empty nor "q".
ReplLine(text) ==
    /\ build = "standard"
    /\ alive
    /\ text # <<>> /\ text # Lines.q
    /\ \E ev \in {Evaluate(text, symbols, bindings, functions)} :
       LET crashed == ~ev.res.ok /\ ev.res.err = StackExhausted
       IN  /\ symbols' = ev.tab
           /\ functions' = ev.res.fns
           /\ bindings' = ev.res.env
           /\ alive' = ~crashed
           /\ defined' = RecordDefines(defined, ev.res.tr, 1)
           /\ last' = [op |-> "ReplLine", input |-> text, pre |-> functions,
                       parsed |-> ev.parsed, res |-> ev.res,
                       out |-> IF crashed THEN [stream |-> "none"]
                               ELSE IF ev.res.ok THEN ReplPrint(ev.res.v)
                               ELSE Stderr("Error: ", ev.res.err)]
    /\ UNCHANGED <<build, g_last_input_len, suite>>

\* The REPL loop of main ends on end of input or on the line "q".
ReplQuit ==
    /\ build \in {"standard", "minimal"}
    /\ alive
    /\ alive' = FALSE
    /\ last' = [op |-> "quit"]
    /\ UNCHANGED <<build, symbols, functions, bindings, g_last_input_len, suite, defined>>

\* eval_lisp_runtime: parse, eval, and the two p_asserts on the final result.
RuntimeEval(text) ==
    LET p == parse(text)
        r == IF p.ok THEN eval(p.e, <<>>) ELSE EFail(p.err, <<>>, <<>>)
    IN  [parsed |-> p,
         res |-> IF ~r.ok THEN r
                 ELSE IF ~IsAtom(r.v) THEN EFail("Final result must be an atom", <<>>, r.tr)
                 ELSE IF ~IsInt(r.v) THEN EFail("Final result must be a number", <<>>, r.tr)
                 ELSE r]

\* One iteration of the REPL loop of main in the minimal build: the line goes
\* to eval_lisp_runtime, where nothing catches what p_assert throws.
MinimalReplLine(text) ==
    /\ build = "minimal"
    /\ alive
    /\ text # <<>> /\ text # Lines.q
    /\ \E ev \in {RuntimeEval(text)} :
           /\ alive' = ev.res.ok
           /\ last' = [op |-> "MinimalReplLine", input |-> text, pre |-> functions,
                       parsed |-> ev.parsed, res |-> ev.res,
                       out |-> IF ev.res.ok THEN Stdout(Arrow \o write_number(ev.res.v.n))
                               ELSE [stream |-> "none"]]
    /\ UNCHANGED <<build, symbols, functions, bindings, g_last_input_len, suite, defined>>

\* eval_lisp of wasm.cpp: p_assert is __builtin_trap() in this build.
eval_lisp(text) ==
    /\ build = "wasm"
    /\ \E ev \in {Evaluate(text, symbols, bindings, functions)} :
           /\ g_last_input_len' = Len(text)
           /\ symbols' = ev.tab
           /\ functions' = ev.res.fns
           /\ bindings' = ev.res.env
           /\ defined' = RecordDefines(defined, ev.res.tr, 1)
           /\ last' = [op |-> "eval_lisp", input |-> text, pre |-> functions,
                       parsed |-> ev.parsed, res |-> ev.res,
                       out |-> IF ~ev.res.ok THEN [kind |-> "trap"]
                               ELSE IF IsInt(ev.res.v)
                               THEN [kind |-> "return", value |-> ev.res.v.n]
                               ELSE [kind |-> "return", value |-> 0]]
    /\ UNCHANGED <<build, alive, suite>>

fn_count == Len(functions)

sym_count == Len(symbols)

\* A reset that clears the bindings and leaves the FunctionStore.
reset_env_bindings_only ==
    /\ build = "wasm"
    /\ bindings' = <<>>
    /\ functions' = functions
    /\ defined' = {}
    /\ last' = [op |-> "reset_env", pre |-> functions]
    /\ UNCHANGED <<build, alive, symbols, g_last_input_len, suite>>

\* reset_env of wasm.cpp: Env::clear on the global Env.
reset_env ==
    /\ build = "wasm"
    /\ bindings' = <<>>
    /\ functions' = <<>>
    /\ defined' = {}
    /\ last' = [op |-> "reset_env", pre |-> functions]
    /\ UNCHANGED <<build, alive, symbols, g_last_input_len, suite>>

Next ==
    \/ \E text \in SuiteTexts(suite) : ReplLine(text)
    \/ \E text \in SuiteTexts(suite) : MinimalReplLine(text)
    \/ \E text \in SuiteTexts(suite) : eval_lisp(text)
    \/ reset_env
    \/ ReplQuit

Spec == Init /\ [][Next]_vars

-----------------------------------------------------------------------------
(* The SymbolTable on its own: intern and clear called in any order. *)

SymTexts == {<<"a">>, <<"a", "b">>, <<"b", "a">>, <<"+">>}

InitSym ==
    /\ build = "table"
    /\ alive = TRUE
    /\ symbols = <<>>
    /\ functions = <<>>
    /\ bindings = <<>>
    /\ g_last_input_len = 0
    /\ suite = 0
    /\ last = [op |-> "none", issued |-> {}]
    /\ defined = {}

\* SymbolTable::intern(s); issued collects every (text, handle) handed out
\* since the table was last empty.
Intern(s) ==
    /\ \E r \in {intern(symbols, s)} :
           /\ symbols' = r.tab
           /\ last' = [op |-> "intern", text |-> s, h |-> r.h, pre |-> symbols,
                       issued |-> last.issued \cup {[text |-> s, h |-> r.h]}]
    /\ UNCHANGED <<build, alive, functions, bindings, g_last_input_len, suite, defined>>

\* SymbolTable::clear(): every handle issued before is invalid from here on.
Clear ==
    /\ symbols' = <<>>
    /\ last' = [op |-> "clear", issued |-> {}]
    /\ UNCHANGED <<build, alive, functions, bindings, g_last_input_len, suite, defined>>

\* SymbolTable::size()
size == Len(symbols)

NextSym ==
    \/ \E s \in SymTexts : Intern(s)
    \/ Clear

SpecSym == InitSym /\ [][NextSym]_vars

-----------------------------------------------------------------------------
(* The builtins on their own: apply_op on operands of every kind. *)

\* The values an operand is drawn from: integers of both signs, a Symbol, and
\* Lists of no, one and several elements.
OpValues ==
    {AtomInt(-7), AtomInt(-2), AtomInt(0), AtomInt(2), AtomInt(7), AtomSym(<<"a">>),
     MkList(<<>>), MkList(<<AtomInt(5)>>),
     MkList(<<MkList(<<AtomInt(1)>>), AtomSym(<<"a">>), AtomInt(3)>>)}

\* The operator names apply_op is given: its six and one it does not know.
OpNames == {SymPlus, SymTimes, SymMinus, SymDiv, SymCar, SymCdr, <<"m", "o", "d">>}

OperandLists == UNION {[1..n -> OpValues] : n \in 0..MaxOperands}

InitOp ==
    /\ build = "builtins"
    /\ alive = TRUE
    /\ symbols = <<>>
    /\ functions = <<>>
    /\ bindings = <<>>
    /\ g_last_input_len = 0
    /\ suite = 0
    /\ \E xs \in OperandLists : last = [op |-> "none", operands |-> xs]
    /\ defined = {}

\* apply_op(op, operands) on the operands of this run.
ApplyOp(op) ==
    /\ last' = [op |-> "apply_op", name |-> op, operands |-> last.operands,
                res |-> apply_op(op, last.operands)]
    /\ UNCHANGED <<build, alive, symbols, functions, bindings, g_last_input_len, suite,
                   defined>>

NextOp == \E op \in OpNames : ApplyOp(op)

SpecOp == InitOp /\ [][NextOp]_vars

-----------------------------------------------------------------------------
(* The two evaluators on the same expressions: eval, and eval_with_env on an *)
(* Env without bindings and an empty FunctionStore.                          *)

\* (quote (3 a))
ExprQuoted == MkList(<<AtomSym(SymQuote), MkList(<<AtomInt(3), AtomSym(<<"a">>)>>)>>)

\* The expressions a run starts from.
ExprSeeds == {AtomInt(0), AtomInt(6), AtomInt(-4), AtomSym(<<"a">>), MkList(<<>>), ExprQuoted}

\* The operators of the forms built: the builtins, quote, the special forms
\* and comparisons only eval_with_env knows, and a name nothing defines.
ExprHeads ==
    {SymPlus, SymMinus, SymTimes, SymDiv, SymCar, SymCdr, SymQuote, SymIf, SymLt, SymDefun,
     <<"f">>}

ExprShapes == {"one", "left", "right"}

\* The form with operator h around e: (h e), (h e 2) or (h (quote (3 a)) e).
Wrap(h, shape, e) ==
    CASE shape = "one"   -> MkList(<<AtomSym(h), e>>)
      [] shape = "left"  -> MkList(<<AtomSym(h), e, AtomInt(2)>>)
      [] shape = "right" -> MkList(<<AtomSym(h), ExprQuoted, e>>)

InitExpr ==
    /\ build = "evaluators"
    /\ alive = TRUE
    /\ symbols = <<>>
    /\ functions = <<>>
    /\ bindings = <<>>
    /\ g_last_input_len = 0
    /\ suite = 0
    /\ \E e \in ExprSeeds : last = [op |-> "none", expr |-> e, nest |-> 0]
    /\ defined = {}

\* eval on the form with operator h around the expression of this run.
EvalPure(h, shape) ==
    /\ last.nest < MaxNest
    /\ \E e \in {Wrap(h, shape, last.expr)} :
           last' = [op |-> "eval", expr |-> e, nest |-> last.nest + 1,
                    res |-> eval(e, <<>>)]
    /\ UNCHANGED <<build, alive, symbols, functions, bindings, g_last_input_len, suite,
                   defined>>

\* eval_with_env on the same, with a fresh Env and FunctionStore.
EvalEnv(h, shape) ==
    /\ last.nest < MaxNest
    /\ \E e \in {Wrap(h, shape, last.expr)} :
           last' = [op |-> "eval_with_env", expr |-> e, nest |-> last.nest + 1,
                    res |-> eval_with_env(e, <<>>, <<>>, 0, <<>>)]
    /\ UNCHANGED <<build, alive, symbols, functions, bindings, g_last_input_len, suite,
                   defined>>

NextExpr ==
    \/ \E h \in ExprHeads, shape \in ExprShapes : EvalPure(h, shape)
    \/ \E h \in ExprHeads, shape \in ExprShapes : EvalEnv(h, shape)

SpecExpr == InitExpr /\ [][NextExpr]_vars

-----------------------------------------------------------------------------
(* Properties *)

\* The entry points that evaluate on the persistent session.
StatefulCalls == {"ReplLine", "eval_lisp"}

\* Every entry point that evaluates a line.
EvalCalls == StatefulCalls \cup {"MinimalReplLine"}

\* The names the "define" events of a trace define, in order.
DefinesOf(tr) ==
    LET ds == SelectSeq(tr, LAMBDA x : x.ev = "define")
    IN  [i \in 1..Len(ds) |-> ds[i].name]

\* The names of the entries of a FunctionStore.
NamesOf(fns) == {fns[i].name : i \in 1..Len(fns)}

IsSpecialForm(s) == s \in {SymQuote, SymIf, SymDefun}

ComparisonNames == {<<"<">>, <<">">>, <<"=">>, <<"<", "=">>, <<">", "=">>}

(* ---- C1 ---- *)

\* C1: every evaluate call on a session either fully succeeds or fully fails,
\* and a failing call leaves the Function Store exactly as it was before the
\* call, also when a defun is an operand of the form that fails.
C1_FailingCallLeavesFunctionStore ==
    (last.op \in StatefulCalls /\ ~last.res.ok) => functions = last.pre

(* ---- C2 ---- *)

\* A call of the last line that ran a user function: every "call" event uses
\* the parameters and the body of the Lambda recorded last for that name.
C2_CallsUseLatest ==
    LET tr == last.res.tr
    IN  \A k \in 1..Len(tr) :
            tr[k].ev = "call" =>
                \E d \in defined :
                    /\ d.name = tr[k].fn
                    /\ tr[k].params = d.fn.params
                    /\ k < Len(tr)
                    /\ tr[k + 1].ev = "eval"
                    /\ tr[k + 1].e = get_body(d.fn)

\* C2: the Function Store holds at most one entry per name, its entries are
\* exactly the most recent defun of each name defined since the last reset,
\* the count of functions is the number of distinct such names, and a call
\* uses only the parameters and body of the most recent defun of its name:
\* (f 10) gives 10 + n when the latest f is (defun f (x) (+ x n)).
C2_OneEntryPerNameLatestWins ==
    /\ \A i, j \in 1..Len(functions) :
           functions[i].name = functions[j].name => i = j
    /\ {<<functions[i].name, functions[i].fn>> : i \in 1..Len(functions)}
           = {<<d.name, d.fn>> : d \in defined}
    /\ fn_count = Cardinality({d.name : d \in defined})
    /\ (last.op \in StatefulCalls /\ DefinesOf(last.res.tr) = <<>>) => C2_CallsUseLatest
    /\ (last.op \in StatefulCalls /\ last.input = Lines.f10) =>
           \A d \in defined :
               d.name = <<"f">> =>
                   last.res.ok /\ last.res.v = AtomInt(10 + d.fn.body[3].n)

\* f was defined as (+ x 1), then again as (+ x 2), and (f 10) gave 12.
C2_Witness ==
    /\ last.op \in StatefulCalls
    /\ last.input = Lines.f10
    /\ last.res.ok /\ last.res.v = AtomInt(12)
    /\ \E d \in defined : d.name = <<"f">> /\ d.again /\ d.fn.body[3] = AtomInt(2)

(* ---- C3 ---- *)

\* Whether the comparison named op holds of a and b.
C3_Holds(op, a, b) ==
    \/ op = <<"<">> /\ a < b
    \/ op = <<">">> /\ a > b
    \/ op = <<"=">> /\ a = b
    \/ op = <<"<", "=">> /\ (a < b \/ a = b)
    \/ op = <<">", "=">> /\ (a > b \/ a = b)

C3_Ints == -1..2

\* C3: in the stateful evaluator, whatever the Function Store holds (a user
\* function named like the comparison included), each of < > = <= >= applied
\* to two integers gives 1 if the comparison holds and 0 otherwise, and no
\* user function of that name is ever invoked.
C3_ComparisonsAlwaysWin ==
    /\ \A op \in ComparisonNames :
       \A a, b \in C3_Ints :
           LET r == apply_with_env(op, <<AtomInt(a), AtomInt(b)>>, bindings, functions,
                                   0, <<>>)
           IN  /\ r.ok
               /\ r.v = AtomInt(IF C3_Holds(op, a, b) THEN 1 ELSE 0)
               /\ r.fns = functions
               /\ \A k \in 1..Len(r.tr) : r.tr[k].ev # "call"
    /\ last.op \in StatefulCalls =>
           \A k \in 1..Len(last.res.tr) :
               last.res.tr[k].ev = "call" =>
                   last.res.tr[k].fn \notin ComparisonNames

\* A user function named <= is in the Function Store and (<= 1 2) gave 1.
C3_Witness ==
    /\ last.op \in StatefulCalls
    /\ last.input = CmpCall(SymLe, <<"1">>, <<"2">>)
    /\ SymLe \in NamesOf(last.pre)
    /\ last.res.ok /\ last.res.v = AtomInt(1)

(* ---- C4 ---- *)

C4_IsIf(e) ==
    IsList(e) /\ Len(e.l) = 4 /\ IsSym(e.l[1]) /\ e.l[1].s = <<"i", "f">>

\* C4: (if c t e) evaluates c once and then exactly one branch, t when c is a
\* non-zero integer and e when it is 0; what the call did is what evaluating c
\* and then the taken branch does, so the untaken branch raises nothing and
\* defines nothing.
C4_IfEvaluatesOneBranch ==
    (last.op \in StatefulCalls /\ last.parsed.ok /\ C4_IsIf(last.parsed.e)) =>
        LET E == last.parsed.e
            c == eval_with_env(E.l[2], bindings, last.pre, 0, <<EvEval(E, bindings)>>)
        IN  /\ ~c.ok => last.res = c
            /\ (c.ok /\ ~IsInt(c.v)) =>
                   /\ ~last.res.ok /\ last.res.err = "Expected a number"
                   /\ last.res.fns = c.fns /\ last.res.tr = c.tr
            /\ (c.ok /\ IsInt(c.v)) =>
                   LET taken == IF c.v.n # 0 THEN E.l[3] ELSE E.l[4]
                   IN  last.res = eval_with_env(taken, c.env, c.fns, 0, c.tr)
            /\ functions = last.res.fns
            /\ last.input = Lines.if_then => last.res.ok /\ last.res.v = AtomInt(2)
            /\ last.input = Lines.if_else => last.res.ok /\ last.res.v = AtomInt(3)
            /\ last.input = Lines.if_neg_defuns => DefinesOf(last.res.tr) = << <<"t">> >>
            /\ last.input = Lines.if_zero_defuns => DefinesOf(last.res.tr) = << <<"e">> >>

\* The condition was 0 and, of the two branches that each define a function,
\* only the else branch did.
C4_Witness ==
    /\ last.op \in StatefulCalls
    /\ last.input = Lines.if_zero_defuns
    /\ last.pre = <<>>
    /\ last.res.ok
    /\ NamesOf(functions) = {<<"e">>}

(* ---- C5 ---- *)

\* The parameters bound to the arguments, in order.
C5_Bound(params, args) ==
    [i \in 1..Len(params) |-> [name |-> params[i], value |-> args[i]]]

\* The binding of name that most-recently-added-first lookup finds in env:
\* the one at the greatest position, 0 if there is none.
C5_Latest(env, name) ==
    LET at == {i \in 1..Len(env) : env[i].name = name}
    IN  IF at = {} THEN 0 ELSE CHOOSE i \in at : \A j \in at : j <= i

\* C5: a call of a user function with n parameters on n arguments evaluates
\* the body with the caller's bindings followed by the parameters bound to the
\* arguments in order, lookup finding the binding added last: a parameter
\* shadows a caller binding of its name, a later duplicate parameter shadows
\* an earlier one, a caller variable that is no parameter is readable; a call
\* with another number of arguments is an error.
C5_CallEnvironment ==
    (last.op \in StatefulCalls /\ DefinesOf(last.res.tr) = <<>>) =>
        LET tr == last.res.tr
        IN  /\ \A k \in 1..Len(tr) :
                   tr[k].ev = "call" =>
                       /\ k > 1 /\ k < Len(tr)
                       /\ tr[k - 1].ev = "apply"
                       /\ tr[k - 1].op = tr[k].fn
                       /\ Len(tr[k - 1].args) = Len(tr[k].params)
                       /\ tr[k].env = tr[k - 1].env \o C5_Bound(tr[k].params, tr[k - 1].args)
                       /\ tr[k + 1].ev = "eval"
                       /\ tr[k + 1].env = tr[k].env
            /\ \A k \in 1..Len(tr) :
                   (tr[k].ev = "eval" /\ IsSym(tr[k].e)) =>
                       /\ Env_lookup(tr[k].env, tr[k].e.s) = C5_Latest(tr[k].env, tr[k].e.s)
                       /\ C5_Latest(tr[k].env, tr[k].e.s) = 0 =>
                              (k = Len(tr) /\ ~last.res.ok /\ last.res.err = "Unbound variable")
            /\ \A k \in 1..Len(tr) :
                   ( /\ tr[k].ev = "apply"
                     /\ tr[k].op \notin ComparisonNames
                     /\ \E i \in 1..Len(last.pre) :
                            /\ last.pre[i].name = tr[k].op
                            /\ Len(last.pre[i].fn.params) # Len(tr[k].args) ) =>
                       (k = Len(tr) /\ ~last.res.ok
                            /\ last.res.err = "Wrong number of arguments")
            /\ (last.input = Lines.cx5 /\ {<<"r", "x">>, <<"c", "x">>} \subseteq NamesOf(last.pre))
                   => (last.res.ok /\ last.res.v = AtomInt(5))
            /\ (last.input = Lines.hs5 /\ {<<"s">>, <<"h", "s">>} \subseteq NamesOf(last.pre))
                   => (last.res.ok /\ last.res.v = AtomInt(1))
            /\ (last.input = Lines.d12 /\ <<"d">> \in NamesOf(last.pre))
                   => (last.res.ok /\ last.res.v = AtomInt(2))
            /\ (last.input = Lines.d1 /\ <<"d">> \in NamesOf(last.pre))
                   => (~last.res.ok /\ last.res.err = "Wrong number of arguments")

\* (cx 5) ran rx from inside cx, and rx read cx's parameter x: the result is 5.
C5_Witness ==
    /\ last.op \in StatefulCalls
    /\ last.input = Lines.cx5
    /\ last.res.ok /\ last.res.v = AtomInt(5)
    /\ \E k \in 1..Len(last.res.tr) :
           /\ last.res.tr[k].ev = "call"
           /\ last.res.tr[k].fn = <<"r", "x">>
           /\ Len(last.res.tr[k].env) = 2

(* ---- C6 ---- *)

RECURSIVE C6_Operands(_, _, _, _, _, _)
\* The operands list[i..] evaluated by the stateful evaluator one after the
\* other from the left, each on the Function Store and the trace its left
\* neighbour left, stopping at the first that fails.
C6_Operands(list, i, vals, env, fns, tr) ==
    IF i > Len(list) THEN [ok |-> TRUE, vals |-> vals, fns |-> fns, tr |-> tr]
    ELSE LET r == eval_with_env(list[i], env, fns, 0, tr)
         IN  IF ~r.ok THEN r
             ELSE C6_Operands(list, i + 1, Append(vals, r.v), r.env, r.fns, r.tr)

RECURSIVE C6_OperandsPure(_, _, _, _)
\* The same for the evaluator without environment.
C6_OperandsPure(list, i, vals, tr) ==
    IF i > Len(list) THEN [ok |-> TRUE, vals |-> vals, tr |-> tr]
    ELSE LET r == eval(list[i], tr)
         IN  IF ~r.ok THEN r
             ELSE C6_OperandsPure(list, i + 1, Append(vals, r.v), r.tr)

\* What the claim says of the form E the last line parsed to: the operands
\* are evaluated from the left and before dispatch, the leftmost failure is
\* the form's failure and ends the evaluation, and the operator is applied,
\* to the values in order, only when every operand succeeded.
C6_LeftToRightThenDispatch ==
    LET E == last.parsed.e
    IN  IF last.op = "MinimalReplLine"
        THEN LET ops == C6_OperandsPure(E.l, 2, <<>>, <<EvEval(E, <<>>)>>)
             IN  IF ~ops.ok
                 THEN /\ ~last.res.ok
                      /\ last.res.err = ops.err
                      /\ last.res.tr = ops.tr
                 ELSE /\ Len(last.res.tr) > Len(ops.tr)
                      /\ SubSeq(last.res.tr, 1, Len(ops.tr)) = ops.tr
                      /\ last.res.tr[Len(ops.tr) + 1] = EvApply(E.l[1].s, ops.vals, <<>>)
        ELSE LET ops == C6_Operands(E.l, 2, <<>>, bindings, last.pre,
                                    <<EvEval(E, bindings)>>)
             IN  IF ~ops.ok
                 THEN /\ last.res = ops
                      /\ functions = ops.fns
                 ELSE /\ Len(last.res.tr) > Len(ops.tr)
                      /\ SubSeq(last.res.tr, 1, Len(ops.tr)) = ops.tr
                      /\ last.res.tr[Len(ops.tr) + 1] = EvApply(E.l[1].s, ops.vals, bindings)

\* The special forms of the evaluator that ran the last line.
C6_Special(s) ==
    IF last.op = "MinimalReplLine" THEN s = SymQuote ELSE IsSpecialForm(s)

\* C6 as stated: for every list form that is not a special form, in both
\* evaluators, the operands are evaluated left to right and all before
\* dispatch, and the form reports the error of its leftmost failing operand.
C6_EveryListForm ==
    ( /\ last.op \in EvalCalls
      /\ last.parsed.ok
      /\ IsList(last.parsed.e)
      /\ last.parsed.e.l # <<>>
      /\ ~(IsSym(last.parsed.e.l[1]) /\ C6_Special(last.parsed.e.l[1].s)) )
        => C6_LeftToRightThenDispatch

\* C6: for every list form whose first element is a Symbol that is not a
\* special form, in both evaluators, the operands are evaluated left to right
\* and all before dispatch: the form reports the error of its leftmost
\* failing operand, operands to its right are not evaluated, and the operator
\* is applied only when every operand succeeded.  A form whose first element
\* is not a Symbol fails on that before any operand is evaluated.
C6_SymbolHeadedForm ==
    /\ ( /\ last.op \in EvalCalls
         /\ last.parsed.ok
         /\ IsList(last.parsed.e)
         /\ last.parsed.e.l # <<>>
         /\ IsSym(last.parsed.e.l[1])
         /\ ~C6_Special(last.parsed.e.l[1].s) )
           => C6_LeftToRightThenDispatch
    /\ ( /\ last.op \in EvalCalls
         /\ last.parsed.ok
         /\ IsList(last.parsed.e)
         /\ last.parsed.e.l # <<>>
         /\ ~IsSym(last.parsed.e.l[1]) )
           => /\ ~last.res.ok
              /\ last.res.err \in {"Operator must be a symbol", "Operator must be an atom"}
              /\ Len(last.res.tr) = 1
    /\ (last.op \in StatefulCalls /\ last.input = Lines.div0_then_defun) =>
           /\ ~last.res.ok /\ last.res.err = "Division by zero"
           /\ DefinesOf(last.res.tr) = <<>>
    /\ (last.op \in EvalCalls /\ last.input = Lines.add_sym) =>
           /\ ~last.res.ok /\ last.res.err = "Expected a number"
           /\ last.res.tr[Len(last.res.tr)].ev = "apply"

\* (+ 1 (car 5) (zz)): the second operand failed, the third was not evaluated.
C6_Witness ==
    /\ last.op \in StatefulCalls
    /\ last.input = Lines.second_fails
    /\ ~last.res.ok
    /\ last.res.err = "'car' argument must be a list"
    /\ \A k \in 1..Len(last.res.tr) :
           last.res.tr[k].ev = "eval" => last.res.tr[k].e # last.parsed.e.l[4]

(* ---- C7 ---- *)

\* C7: reset never fails and leaves the Function Store empty (a count of 0)
\* and the session bindings empty; from then on a call reaches a user
\* function only if its name was defined again since the reset.
C7_ResetEmptiesSession ==
    /\ build = "wasm" => ENABLED reset_env
    /\ last.op = "reset_env" =>
           /\ functions = <<>>
           /\ bindings = <<>>
           /\ fn_count = 0
           /\ \A text \in SuiteTexts(suite) :
                  LET r == Evaluate(text, symbols, bindings, functions).res
                  IN  \A k \in 1..Len(r.tr) :
                          r.tr[k].ev = "call" =>
                              \E j \in 1..(k - 1) :
                                  r.tr[j].ev = "define" /\ r.tr[j].name = r.tr[k].fn
    /\ last.op = "eval_lisp" =>
           \A k \in 1..Len(last.res.tr) :
               last.res.tr[k].ev = "call" =>
                   \E d \in defined : d.name = last.res.tr[k].fn

\* reset ran on a session that had functions defined.
C7_Witness ==
    /\ last.op = "reset_env"
    /\ last.pre # <<>>
    /\ functions = <<>>

(* ---- C8 ---- *)

\* The text the REPL printed after "=> ".
C8_Printed == SubSeq(last.out.chars, Len(Arrow) + 1, Len(last.out.chars))

\* Whether text is what the REPL prints for some integer: an optional minus
\* sign and then digits only.
C8_IsIntegerText(text) ==
    LET digits == IF text # <<>> /\ text[1] = "-" THEN Tail(text) ELSE text
    IN  /\ digits # <<>>
        /\ \A i \in 1..Len(digits) :
               digits[i] \in {"0", "1", "2", "3", "4", "5", "6", "7", "8", "9"}

\* C8 as stated: a result that is not an integer is reported as an outcome
\* that no integer result has, and never as the integer 0.
C8_NeverReportedAsInteger ==
    (last.op \in StatefulCalls /\ last.res.ok /\ ~IsInt(last.res.v)) =>
        /\ last.op = "ReplLine" => ~C8_IsIntegerText(C8_Printed)
        /\ last.op = "eval_lisp" => last.out.kind # "return"

\* C8: the evaluator's result for a defun is the Symbol of the name and for a
\* quote or cdr a List, never an Integer, and the REPL prints a result that is
\* not an integer as text no integer is printed as, so (defun id (x) x) and
\* (+ 0 0) print differently; the WASM entry point eval_lisp, which can only
\* return an integer, returns 0 for every result that is not an integer.
C8_DistinctInCoreAndRepl ==
    /\ (last.op \in StatefulCalls /\ last.res.ok) =>
           /\ DefinesOf(last.res.tr) # <<>> /\ last.parsed.e.l[1].s = SymDefun
                  => last.res.v = AtomSym(last.parsed.e.l[2].s)
           /\ last.input \in {Lines.quote_list, Lines.cdr} => IsList(last.res.v)
           /\ last.op = "ReplLine" =>
                  /\ last.out.stream = "stdout"
                  /\ SubSeq(last.out.chars, 1, Len(Arrow)) = Arrow
                  /\ IsInt(last.res.v) <=> C8_IsIntegerText(C8_Printed)
                  /\ IsInt(last.res.v) => C8_Printed = ToDecimal(last.res.v.n)
           /\ last.op = "eval_lisp" =>
                  /\ last.out.kind = "return"
                  /\ IsInt(last.res.v) => last.out.value = last.res.v.n
                  /\ ~IsInt(last.res.v) => last.out.value = 0
    /\ (last.op = "ReplLine" /\ last.input = Lines.defun_id) =>
           last.out = Stdout(<<"=", ">", " ", "i", "d">>)
    /\ (last.op = "ReplLine" /\ last.input = Lines.add00) =>
           last.out = Stdout(<<"=", ">", " ", "0">>)

\* The REPL evaluated (defun id (x) x) and printed the name.
C8_Witness ==
    /\ last.op = "ReplLine"
    /\ last.input = Lines.defun_id
    /\ last.res.ok /\ IsSym(last.res.v)
    /\ last.out.stream = "stdout"
    /\ C8_Printed = <<"i", "d">>

(* ---- C9 ---- *)

\* C9: without clear, the Symbol Table never holds two entries of the same
\* text; intern of a text already present leaves the table unchanged and
\* returns the handle returned the first time, intern of a new text appends
\* exactly one entry, and every handle issued earlier still denotes its text.
C9_InternIdempotent ==
    /\ \A i, j \in 1..Len(symbols) : symbols[i] = symbols[j] => i = j
    /\ last.op = "intern" =>
           /\ IF \E i \in 1..Len(last.pre) : last.pre[i] = last.text
              THEN symbols = last.pre
              ELSE symbols = Append(last.pre, last.text)
           /\ \A x, y \in last.issued : x.text = y.text => x.h = y.h
           /\ \A x \in last.issued :
                  /\ x.h.node \in 1..Len(symbols)
                  /\ x.h.len = Len(x.text)
                  /\ SubSeq(symbols[x.h.node], 1, x.h.len) = x.text

\* intern of a text that was already in a table of several entries.
C9_Witness ==
    /\ last.op = "intern"
    /\ Len(last.pre) >= 2
    /\ symbols = last.pre
    /\ last.h.node < Len(symbols)

(* ---- C10 ---- *)

RECURSIVE C10_SymbolsOf(_)
\* The texts of the Symbol atoms of an expression.
C10_SymbolsOf(e) ==
    IF IsSym(e) THEN {e.s}
    ELSE IF IsInt(e) THEN {}
    ELSE UNION {C10_SymbolsOf(e.l[i]) : i \in 1..Len(e.l)}

\* C10: in both parsers an atom is the maximal run of characters that are
\* none of space, newline, tab, ( , ) and the quote character, so no atom
\* contains ( and (+ 1(+ 2 3)) parses as the list + , 1 , (+ 2 3).
C10_AtomEndsAtOpenParen ==
    (last.op \in EvalCalls /\ last.parsed.ok) =>
        /\ \A s \in C10_SymbolsOf(last.parsed.e) :
               \A i \in 1..Len(s) : s[i] \notin {" ", "\n", "\t", "(", ")", "'"}
        /\ last.input = Lines.glued =>
               last.parsed.e = MkList(<<AtomSym(<<"+">>), AtomInt(1),
                                        MkList(<<AtomSym(<<"+">>), AtomInt(2), AtomInt(3)>>)>>)

(* ---- C11 ---- *)

\* The builtin's result for op on two integers, or on one List.
C11_Arith(op, a, b) ==
    IF op = <<"+">> THEN a + b
    ELSE IF op = <<"-">> THEN a - b
    ELSE a * b

\* C11: the builtins + - * / car cdr cannot be redefined: whatever defuns
\* were evaluated, a defun of one of these names included, applying the
\* operator in the stateful evaluator gives the builtin's result, so (+ 1 2)
\* is 3 after (defun + (a b) 0).
C11_BuiltinsNotRedefinable ==
    /\ \A op \in {<<"+">>, <<"-">>, <<"*">>} :
       \A a, b \in C3_Ints :
           LET r == apply_with_env(op, <<AtomInt(a), AtomInt(b)>>, bindings, functions,
                                   0, <<>>)
           IN  r.ok /\ r.v = AtomInt(C11_Arith(op, a, b))
    /\ LET L == MkList(<<AtomInt(7), AtomInt(8)>>)
           a == apply_with_env(<<"c", "a", "r">>, <<L>>, bindings, functions, 0, <<>>)
           d == apply_with_env(<<"c", "d", "r">>, <<L>>, bindings, functions, 0, <<>>)
       IN  /\ a.ok /\ a.v = AtomInt(7)
           /\ d.ok /\ d.v = MkList(<<AtomInt(8)>>)
    /\ (last.op \in StatefulCalls /\ last.input = Lines.add12) =>
           (last.res.ok /\ last.res.v = AtomInt(3))

(* ---- C12 ---- *)

C12_Abs(n) == IF n < 0 THEN 0 - n ELSE n

\* C12: (/ a b) on integers is an error when b is 0 and otherwise the
\* quotient truncated toward zero: q with a = q*b + r, |r| < |b| and r zero or
\* of the sign of a, so (/ -7 2) and (/ 7 -2) are -3; with any number of
\* operands other than 2 it is an error.
C12_DivisionTruncates ==
    (last.op = "apply_op" /\ last.name = <<"/">>) =>
        LET xs == last.operands
        IN  /\ Len(xs) # 2 =>
                   (~last.res.ok /\ last.res.err = "'/' requires exactly two arguments")
            /\ (Len(xs) = 2 /\ xs[1].k = "int" /\ xs[2].k = "int") =>
                   LET a == xs[1].n
                       b == xs[2].n
                   IN  IF b = 0
                       THEN ~last.res.ok /\ last.res.err = "Division by zero"
                       ELSE /\ last.res.ok
                            /\ last.res.v.k = "int"
                            /\ LET r == a - last.res.v.n * b
                               IN  /\ C12_Abs(r) < C12_Abs(b)
                                   /\ r = 0 \/ (r < 0) = (a < 0)
            /\ xs = <<[k |-> "int", n |-> -7], [k |-> "int", n |-> 2]>> =>
                   last.res.v = [k |-> "int", n |-> -3]
            /\ xs = <<[k |-> "int", n |-> 7], [k |-> "int", n |-> -2]>> =>
                   last.res.v = [k |-> "int", n |-> -3]

\* (/ -7 2) gave -3.
C12_Witness ==
    /\ last.op = "apply_op"
    /\ last.name = <<"/">>
    /\ last.operands = <<AtomInt(-7), AtomInt(2)>>
    /\ last.res.ok
    /\ last.res.v = AtomInt(-3)

(* ---- C13 ---- *)

RECURSIVE C13_Sum(_)
C13_Sum(xs) == IF xs = <<>> THEN 0 ELSE Head(xs).n + C13_Sum(Tail(xs))

RECURSIVE C13_Product(_)
C13_Product(xs) == IF xs = <<>> THEN 1 ELSE Head(xs).n * C13_Product(Tail(xs))

\* C13: on integer operands + gives their sum (0 for none), * their product
\* (1 for none), and - the first minus the sum of the rest, so (- x) is x and
\* (-) is an error; an operand that is a Symbol or a List makes each of the
\* three an error.
C13_SumProductDifference ==
    (last.op = "apply_op" /\ last.name \in {<<"+">>, <<"*">>, <<"-">>}) =>
        LET xs == last.operands
        IN  IF \E i \in 1..Len(xs) : xs[i].k # "int"
            THEN ~last.res.ok /\ last.res.err = "Expected a number"
            ELSE /\ last.name = <<"+">> =>
                        (last.res.ok /\ last.res.v = [k |-> "int", n |-> C13_Sum(xs)])
                 /\ last.name = <<"*">> =>
                        (last.res.ok /\ last.res.v = [k |-> "int", n |-> C13_Product(xs)])
                 /\ (last.name = <<"-">> /\ xs = <<>>) => ~last.res.ok
                 /\ (last.name = <<"-">> /\ xs # <<>>) =>
                        /\ last.res.ok
                        /\ last.res.v = [k |-> "int", n |-> xs[1].n - C13_Sum(Tail(xs))]
                        /\ Len(xs) = 1 => last.res.v = xs[1]

\* (- 7 -2 2) gave 7.
C13_Witness ==
    /\ last.op = "apply_op"
    /\ last.name = <<"-">>
    /\ last.operands = <<AtomInt(7), AtomInt(-2), AtomInt(2)>>
    /\ last.res.ok
    /\ last.res.v = AtomInt(7)

(* ---- C14 ---- *)

\* C14: on one operand that is a non-empty List L, car gives the first
\* element and cdr the List of the elements after the first, in order, so
\* the first element followed by cdr's elements is L; on an empty List, an
\* Atom, or any other number of operands, car and cdr are errors.
C14_CarCdr ==
    (last.op = "apply_op" /\ last.name \in {<<"c", "a", "r">>, <<"c", "d", "r">>}) =>
        LET xs == last.operands
        IN  IF Len(xs) = 1 /\ xs[1].k = "list" /\ xs[1].l # <<>>
            THEN LET L == xs[1].l
                 IN  /\ last.res.ok
                     /\ last.name = <<"c", "a", "r">> => last.res.v = L[1]
                     /\ last.name = <<"c", "d", "r">> =>
                            /\ last.res.v.k = "list"
                            /\ Len(last.res.v.l) = Len(L) - 1
                            /\ \A i \in 1..(Len(L) - 1) : last.res.v.l[i] = L[i + 1]
                            /\ <<apply_op(<<"c", "a", "r">>, xs).v>> \o last.res.v.l = L
            ELSE ~last.res.ok

\* cdr of a List of three elements gave the List of the last two.
C14_Witness ==
    /\ last.op = "apply_op"
    /\ last.name = <<"c", "d", "r">>
    /\ Len(last.operands) = 1
    /\ last.operands[1].k = "list"
    /\ Len(last.operands[1].l) = 3
    /\ last.res.ok
    /\ Len(last.res.v.l) = 2

(* ---- C15 ---- *)

\* C15: variables and functions are separate namespaces.  A bare Symbol is
\* looked up in the variable bindings only: with no binding it is an
\* unbound-variable error even when a function of that name is defined.  An
\* operator is looked up in the Function Store and the builtins only: a call
\* of a defined name runs that function whatever variables of that name the
\* environment binds, and a name that is no function is not made callable by
\* a variable of that name.
C15_SeparateNamespaces ==
    (last.op \in StatefulCalls /\ DefinesOf(last.res.tr) = <<>>) =>
        LET tr  == last.res.tr
            fns == last.pre
        IN  /\ \A k \in 1..Len(tr) :
                   ( /\ tr[k].ev = "eval"
                     /\ tr[k].e.k = "sym"
                     /\ \A i \in 1..Len(tr[k].env) : tr[k].env[i].name # tr[k].e.s ) =>
                       (k = Len(tr) /\ ~last.res.ok /\ last.res.err = "Unbound variable")
            /\ \A k \in 1..Len(tr) :
                   (tr[k].ev = "apply" /\ tr[k].op \notin ComparisonNames) =>
                       IF tr[k].op \in NamesOf(fns)
                       THEN \/ /\ k = Len(tr)
                               /\ ~last.res.ok
                               /\ last.res.err \in {"Wrong number of arguments", StackExhausted}
                            \/ /\ k < Len(tr)
                               /\ tr[k + 1].ev = "call"
                               /\ tr[k + 1].fn = tr[k].op
                               /\ \E i \in 1..Len(fns) :
                                      /\ fns[i].name = tr[k].op
                                      /\ fns[i].fn.params = tr[k + 1].params
                       ELSE k = Len(tr) \/ tr[k + 1].ev # "call"
            /\ (last.input = Lines.ap5 /\ {<<"f">>, <<"a", "p">>} \subseteq NamesOf(fns)) =>
                   (last.res.ok /\ last.res.v = AtomInt(11))
            /\ (last.input = Lines.f_bare /\ <<"f">> \in NamesOf(fns)) =>
                   (~last.res.ok /\ last.res.err = "Unbound variable")

\* (ap 5) called the function f while the variable f was bound to 5.
C15_Witness ==
    /\ last.op \in StatefulCalls
    /\ last.input = Lines.ap5
    /\ last.res.ok /\ last.res.v = AtomInt(11)
    /\ \E k \in 1..Len(last.res.tr) :
           /\ last.res.tr[k].ev = "call"
           /\ last.res.tr[k].fn = <<"f">>
           /\ \E i \in 1..Len(last.res.tr[k].env) :
                  /\ last.res.tr[k].env[i].name = <<"f">>
                  /\ last.res.tr[k].env[i].value = AtomInt(5)

(* ---- C16 ---- *)

\* C16: the stateful evaluator is a superset of the pure one: on every
\* expression on which eval returns a value, eval_with_env with no variable
\* bindings and an empty Function Store returns the same value and leaves
\* the Function Store empty.
C16_StatefulExtendsPure ==
    last.op = "eval_with_env" =>
        LET p == eval(last.expr, <<>>)
        IN  p.ok => /\ last.res.ok
                    /\ last.res.v = p.v
                    /\ last.res.fns = <<>>
                    /\ last.res.env = <<>>

\* Both evaluators gave 5 for (+ (car (quote (3 a))) 2).
C16_Witness ==
    /\ last.op = "eval_with_env"
    /\ last.expr = MkList(<<AtomSym(<<"+">>),
                            MkList(<<AtomSym(<<"c", "a", "r">>), ExprQuoted>>), AtomInt(2)>>)
    /\ eval(last.expr, <<>>).ok
    /\ last.res.ok
    /\ last.res.v = AtomInt(5)

(* ---- C17 ---- *)

\* C17: for every body expression b given as the third operand of a
\* successful defun, the expression evaluated when the function is called is
\* exactly b: get_body of the Lambda stored returns an expression equal to
\* b, a one-element List whose element is a Symbol, such as (g2), included.
C17_BodyReadBackUnchanged ==
    (/\ last.op \in StatefulCalls
     /\ last.parsed.ok
     /\ IsList(last.parsed.e)
     /\ Len(last.parsed.e.l) = 4
     /\ IsSym(last.parsed.e.l[1])
     /\ last.parsed.e.l[1].s = SymDefun
     /\ last.res.ok)
    => LET name == last.parsed.e.l[2].s
           fi   == FunctionStore_lookup(functions, name)
       IN  /\ fi # 0
           /\ get_body(functions[fi].fn) = last.parsed.e.l[4]

(* ---- C18 ---- *)

\* A defun form with exactly 3 operands, a Symbol as name and a List of
\* Symbols as parameters.
C18_WellFormed(e) ==
    /\ Len(e.l) = 4
    /\ e.l[2].k = "sym"
    /\ e.l[3].k = "list"
    /\ \A i \in 1..Len(e.l[3].l) : e.l[3].l[i].k = "sym"

\* The last line was a defun form.
C18_IsDefun ==
    /\ last.op \in StatefulCalls
    /\ last.parsed.ok
    /\ last.parsed.e.k = "list"
    /\ Len(last.parsed.e.l) > 0
    /\ last.parsed.e.l[1].k = "sym"
    /\ last.parsed.e.l[1].s = SymDefun

\* C18: a defun form is accepted only with exactly 3 operands whose first is
\* a Symbol and whose second is a List of Symbols; a well-formed defun stores
\* the Lambda under that name, keeps every other function, returns the name
\* Symbol and evaluates nothing of the body; every malformed defun is an
\* error that leaves the Function Store unchanged.
C18_DefunAcceptance ==
    C18_IsDefun =>
        LET e == last.parsed.e
        IN  IF C18_WellFormed(e)
            THEN LET name == e.l[2].s
                     fi   == FunctionStore_lookup(functions, name)
                 IN  /\ last.res.ok
                     /\ last.res.v = AtomSym(name)
                     /\ fi # 0
                     /\ functions[fi].fn.params = [i \in 1..Len(e.l[3].l) |-> e.l[3].l[i].s]
                     /\ functions[fi].fn.body = (IF e.l[4].k = "list" THEN e.l[4].l ELSE <<e.l[4]>>)
                     /\ NamesOf(functions) = NamesOf(last.pre) \cup {name}
                     /\ Len(functions) = Cardinality(NamesOf(functions))
                     /\ \A j \in 1..Len(last.pre) :
                            last.pre[j].name # name =>
                                functions[FunctionStore_lookup(functions, last.pre[j].name)].fn
                                    = last.pre[j].fn
                     /\ Len(last.res.tr) = 2
                     /\ last.res.tr[1] = EvEval(e, <<>>)
                     /\ last.res.tr[2].ev = "define"
            ELSE /\ ~last.res.ok
                 /\ functions = last.pre
                 /\ \A i \in 1..Len(last.res.tr) : last.res.tr[i].ev # "define"

\* f was defined, then (defun f (x (y)) x) was refused and f kept its Lambda.
C18_Witness ==
    /\ C18_IsDefun
    /\ last.input = Lines.defun_list_param
    /\ ~last.res.ok
    /\ last.res.err = "Parameter must be a symbol"
    /\ functions # <<>>
    /\ functions = last.pre

\* f was defined, then redefined with a body that divides by zero, and the
\* defun returned f without an error.
C18_WitnessAccepted ==
    /\ C18_IsDefun
    /\ last.input = Lines.defun_f_div0
    /\ last.pre # <<>>
    /\ last.res.ok
    /\ functions # last.pre

(* ---- C19 ---- *)

\* The user-function applications of the last line, when the line defined
\* nothing, so that the Function Store was last.pre throughout.
C19_Applications ==
    IF last.op \in StatefulCalls /\ last.parsed.ok /\ DefinesOf(last.res.tr) = <<>>
    THEN {i \in 1..Len(last.res.tr) :
             /\ last.res.tr[i].ev = "apply"
             /\ ~IsCmp(last.res.tr[i].op)
             /\ FunctionStore_lookup(last.pre, last.res.tr[i].op) # 0}
    ELSE {}

\* C19: a user-function call binds its parameters only in a copy of the
\* caller's bindings: when it returns or fails the caller's bindings are
\* what they were before the call, also in recursive calls; the session
\* Environment has no bindings after any sequence of evaluate calls, and a
\* bare Symbol evaluated at top level is an unbound-variable error.
C19_CallerBindingsKept ==
    /\ bindings = <<>>
    /\ last.op \in StatefulCalls => last.res.env = <<>>
    /\ \A i \in C19_Applications :
           LET a == last.res.tr[i]
               r == apply_with_env(a.op, a.args, a.env, last.pre, 0, <<>>)
           IN  /\ r.env = a.env
               /\ \A j \in 1..Len(r.tr) :
                      r.tr[j].ev = "call" =>
                          /\ r.tr[j - 1].ev = "apply"
                          /\ Len(r.tr[j].env) = Len(r.tr[j - 1].env) + Len(r.tr[j].params)
                          /\ SubSeq(r.tr[j].env, 1, Len(r.tr[j - 1].env)) = r.tr[j - 1].env
    /\ (last.op \in StatefulCalls /\ last.parsed.ok /\ IsSym(last.parsed.e))
           => ~last.res.ok /\ last.res.err = "Unbound variable"

\* (k 1) gave 10: the call (id 9) inside k's body bound x to 9 on top of k's
\* own x, and k then read its x as 1.
C19_Witness ==
    /\ last.op \in StatefulCalls
    /\ last.input = Lines.k1
    /\ last.res.ok
    /\ last.res.v = AtomInt(10)
    /\ Cardinality(C19_Applications) = 2
    /\ \E i \in 1..Len(last.res.tr) :
           /\ last.res.tr[i].ev = "call"
           /\ Len(last.res.tr[i].env) = 2
    /\ bindings = <<>>

\* After a call that failed inside the body, the bare Symbol x is unbound.
C19_WitnessBare ==
    /\ last.op \in StatefulCalls
    /\ last.input = Lines.x_bare
    /\ FunctionStore_lookup(functions, <<"b", "a", "d">>) # 0
    /\ ~last.res.ok
    /\ last.res.err = "Unbound variable"

====
